---------------------------- MODULE Spec2Model ----------------------------
(***************************************************************************)
(* A model of the resume toolkit's Python packages:                        *)
(*   resume_optimizer.optimizer   the iterative optimisation loop          *)
(*   db.client                    the TursoClient database wrapper         *)
(*   ats_scorer.scorer            the ATS scoring engine                   *)
(*   jd_analyzer.analyzer         the job description analysis             *)
(*   pdf_parser.parser            ResumeParser.parse_pdf                   *)
(*   dashboard_generator          the analytics of the dashboard           *)
(*   company_analyzer.analyzer    the talking points                       *)
(*                                                                         *)
(* A text is a sequence of tokens.  Case folding and the substring         *)
(* relation between tokens are given by tables over the vocabulary used    *)
(* in the model.  Floating point values are exact rationals or fixed       *)
(* point integers, as noted where they are introduced.                     *)
(***************************************************************************)
EXTENDS Integers, Sequences, FiniteSets, TLC

VARIABLES
    \* optimize_resume_iteratively: arguments
    base_resume, jd_analysis, target_score, max_iterations,
    \* optimize_resume_iteratively: locals and return value
    i, iterations, current_resume, opt_pc, opt_result,
    \* TursoClient: self.client and the libsql clients connect() has created
    client, conns,
    \* the tasks that use the TursoClient: where each one is, what its last
    \* call returned or raised, and its "async with" block
    task_pc, outcome, cm,
    \* the database: the queries it has received and its applications table
    n_sent, last_sent, applications,
    \* score_resume: arguments, position and what it raised or returned
    ats_resume_text, ats_job_description, ats_pc, ats_result,
    \* calculate_overall_score: its argument
    ats_breakdown,
    \* ResumeParser.parse_pdf: the file at pdf_path, the position in the
    \* method, the page the loop is at, text_parts and what was raised or returned
    pdf_file, pdf_pc, page_index, text_parts, pdf_result,
    \* a call of a function without state: the function, its arguments,
    \* whether it has returned, and what it returned
    call_fn, call_args, call_pc, call_result

opt_vars == <<base_resume, jd_analysis, target_score, max_iterations,
              i, iterations, current_resume, opt_pc, opt_result>>

db_vars == <<client, conns, task_pc, outcome, cm, n_sent, last_sent, applications>>

ats_vars == <<ats_resume_text, ats_job_description, ats_pc, ats_result, ats_breakdown>>

pdf_vars == <<pdf_file, pdf_pc, page_index, text_parts, pdf_result>>

call_vars == <<call_fn, call_args, call_pc, call_result>>

more_vars == <<pdf_vars, call_vars>>

vars == <<opt_vars, db_vars, ats_vars, more_vars>>

---------------------------------------------------------------------------
(* Bounds of the model *)

MaxIterations == 3
MaxRawLen == 1
MaxKeywords == 2
MaxConns == 2
MaxSent == 2
MaxRows == 2
MaxResumeLines == 2
MaxJdLines == 2
MaxPages == 2
MaxApps == 3
MaxStages == 3
MaxDateWords == 3

---------------------------------------------------------------------------
(* The parts of the state a specification does not use stay as they are here *)

AllTasks == {"t1", "t2"}

\* The outcome of a call: an exception raised (value names it) or a value
\* returned.  value is None, True, False, self, or the type of what is
\* returned; len is the number of objects returned and rows are the
\* Application objects among them.
Outcome(kind, value, len, rows) ==
    [kind |-> kind, value |-> value, len |-> len, rows |-> rows]
Returned(v) == Outcome("returned", v, 0, <<>>)
ReturnedModels(type, len, rows) == Outcome("returned", type, len, rows)
Raised(e) == Outcome("raised", e, 0, <<>>)
NoCall == Outcome("none", "None", 0, <<>>)

NoQuery == [op |-> "none", supplied |-> {}, sql |-> <<>>]

\* TursoClient.__init__: self.client = None (0), nothing sent, no block entered
ClientConstructed ==
    /\ client = 0
    /\ conns = <<>>
    /\ task_pc = [t \in AllTasks |-> "idle"]
    /\ outcome = [t \in AllTasks |-> NoCall]
    /\ cm = [t \in AllTasks |-> "outside"]
    /\ n_sent = 0
    /\ last_sent = NoQuery

\* no table of the database is modelled
NoDatabase == applications = <<>>

\* no ScoreBreakdown has been passed
NoBreakdown ==
    [keyword_match |-> 0, formatting |-> 0, skills_alignment |-> 0, section_structure |-> 0]

\* neither score_resume nor calculate_overall_score is running
AtsIdle ==
    /\ ats_breakdown = NoBreakdown
    /\ ats_resume_text = <<>>
    /\ ats_job_description = <<>>
    /\ ats_pc = "idle"
    /\ ats_result = [kind |-> "none"]

\* parse_pdf is not running
PdfIdle ==
    /\ pdf_file = [exists |-> FALSE, opens |-> "ok", pages |-> <<>>]
    /\ pdf_pc = "idle"
    /\ page_index = 0
    /\ text_parts = <<>>
    /\ pdf_result = [kind |-> "none", error |-> "", message |-> "", cause |-> ""]

\* no function is being called
CallIdle ==
    /\ call_fn = "none"
    /\ call_args = <<>>
    /\ call_pc = "idle"
    /\ call_result = <<>>

MoreIdle == PdfIdle /\ CallIdle

\* optimize_resume_iteratively is not running
OptIdle ==
    /\ base_resume = <<>>
    /\ jd_analysis = <<>>
    /\ target_score = 0
    /\ max_iterations = 0
    /\ i = 0
    /\ iterations = <<>>
    /\ current_resume = <<>>
    /\ opt_pc = "idle"
    /\ opt_result = <<>>

---------------------------------------------------------------------------
(* Texts *)

\* str.lower() on the tokens of the vocabulary
Lower(tok) ==
    CASE tok = "Python"     -> "python"
      [] tok = "JavaScript" -> "javascript"
      [] tok = "Java"       -> "java"
      [] tok = "AWS"        -> "aws"
      [] tok = "Skills"     -> "skills"
      [] tok = "SKILLS"     -> "skills"
      [] tok = "WORK"       -> "work"
      [] tok = "EXPERIENCE" -> "experience"
      [] tok = "TECHNICAL"  -> "technical"
      [] tok = "EDUCATION"  -> "education"
      [] tok = "Docker"     -> "docker"
      [] tok = "Required"   -> "required"
      [] tok = "Jan"        -> "jan"
      [] OTHER              -> tok

\* a in b, for two lower-case tokens
SubstrOf(a, b) ==
    \/ a = b
    \/ <<a, b>> \in { <<"java", "javascript">>, <<"lead", "leadership">>,
                      <<"r", "work">>, <<"r", "experience">>, <<"r", "docker">>,
                      <<"r", "required">>, <<"r", "leadership">>,
                      <<"r", "security">> }

\* kw.lower() in text.lower()
InText(kw, text) ==
    \E n \in DOMAIN text : SubstrOf(Lower(kw), Lower(text[n]))

TextsOver(V, n) == UNION { [1..k -> V] : k \in 0..n }

\* The sequences over S, of length at most n, that repeat no element
DistinctSeqs(S, n) ==
    { s \in UNION { [1..k -> S] : k \in 0..n } :
        \A a, b \in DOMAIN s : a # b => s[a] # s[b] }

\* s[:n]
Take(s, n) == SubSeq(s, 1, IF Len(s) < n THEN Len(s) ELSE n)

---------------------------------------------------------------------------
(* Rationals: [n |-> numerator, d |-> denominator], d > 0 *)

Rat(n, d) == [n |-> n, d |-> d]
RatGE(a, b) == a.n * b.d >= b.n * a.d
RatMin(a, b) == IF RatGE(b, a) THEN a ELSE b

---------------------------------------------------------------------------
(* resume_optimizer.optimizer *)

\* A dict is a sequence of <<key, value>> pairs in insertion order.
RECURSIVE SumValues(_)
SumValues(d) == IF d = <<>> THEN 0 ELSE d[1][2] + SumValues(Tail(d))

RECURSIVE MatchedScore(_, _)
MatchedScore(text, d) ==
    IF d = <<>> THEN 0
    ELSE (IF InText(d[1][1], text) THEN d[1][2] ELSE 0) + MatchedScore(text, Tail(d))

\* Importances are in tenths; the score is the exact percentage.
calculate_ats_score(resume_text, jd_keywords) ==
    IF resume_text = <<>> \/ jd_keywords = <<>> THEN Rat(0, 1)
    ELSE LET total_score == SumValues(jd_keywords)
             matched_score == MatchedScore(resume_text, jd_keywords)
         IN IF total_score > 0
            THEN RatMin(Rat(matched_score * 100, total_score), Rat(100, 1))
            ELSE Rat(0, 1)

\* sorted(items, key=value, reverse=True): stable, descending by value
RECURSIVE InsertDesc(_, _)
InsertDesc(sorted, item) ==
    IF sorted = <<>> THEN <<item>>
    ELSE IF Head(sorted)[2] >= item[2]
         THEN <<Head(sorted)>> \o InsertDesc(Tail(sorted), item)
         ELSE <<item>> \o sorted

RECURSIVE SortedDesc(_)
SortedDesc(d) ==
    IF d = <<>> THEN <<>>
    ELSE InsertDesc(SortedDesc(SubSeq(d, 1, Len(d) - 1)), d[Len(d)])

RECURSIVE Keys(_)
Keys(d) == IF d = <<>> THEN <<>> ELSE <<d[1][1]>> \o Keys(Tail(d))

RECURSIVE GapsOf(_, _)
GapsOf(text, sorted_keywords) ==
    IF sorted_keywords = <<>> THEN <<>>
    ELSE (IF ~InText(sorted_keywords[1][1], text) /\ sorted_keywords[1][2] > 5
          THEN <<sorted_keywords[1][1]>> ELSE <<>>)
         \o GapsOf(text, Tail(sorted_keywords))

identify_keyword_gaps(resume_text, jd_keywords) ==
    IF resume_text = <<>> \/ jd_keywords = <<>>
    THEN Keys(jd_keywords)
    ELSE GapsOf(resume_text, SortedDesc(jd_keywords))

\* "\n\n".join(f"# {k}\n{v}" for k, v in sections.items())
RECURSIVE SectionsText(_)
SectionsText(sections) ==
    IF sections = <<>> THEN <<>>
    ELSE <<"#", sections[1][1]>> \o sections[1][2] \o SectionsText(Tail(sections))

\* the text optimize_iteration scores
ScoredText(resume) ==
    IF resume.raw # <<>> THEN resume.raw ELSE SectionsText(resume.sections)

\* a copy that loses the raw text
optimize_iteration_DropsRaw(resume, jd) ==
    [optimized |-> [resume EXCEPT !.raw = <<>>],
     score |-> calculate_ats_score(ScoredText(resume), jd.keyword_importance)]

\* returns (optimized, current_score); optimized is resume.copy()
optimize_iteration(resume, jd) ==
    [optimized |-> resume,
     score |-> calculate_ats_score(ScoredText(resume), jd.keyword_importance)]

\* the dictionary optimize_resume_iteratively returns
OptResult(its, resume) ==
    [iterations |-> its,
     final_resume |-> resume,
     final_score |-> IF its # <<>> THEN its[Len(its)].score ELSE Rat(0, 1)]

NoResult == [iterations |-> <<>>, final_resume |-> <<>>, final_score |-> Rat(0, 1)]

ResumeTokens == {"Python", "JavaScript"}
SectionNames == {"skills"}
OptKeywords == {"python", "Java"}
\* importances in tenths: 0.5 is not above the gap threshold, 0.9 is
Importances == {5, 9}
TargetScores == {0, 50, 100}

Resumes ==
    [raw : TextsOver(ResumeTokens, MaxRawLen),
     sections : { <<>> } \cup { << <<k, v>> >> : k \in SectionNames,
                                                 v \in TextsOver(ResumeTokens, 1) }]

JdAnalyses ==
    [keyword_importance :
        { d \in UNION { [1..k -> OptKeywords \X Importances] : k \in 0..MaxKeywords } :
            \A a, b \in DOMAIN d : a # b => d[a][1] # d[b][1] }]

OptInit ==
    /\ base_resume \in Resumes
    /\ jd_analysis \in JdAnalyses
    /\ target_score \in TargetScores
    /\ max_iterations \in 0..MaxIterations
    /\ i = 0
    /\ iterations = <<>>
    /\ current_resume = base_resume
    /\ opt_pc = "loop"
    /\ opt_result = NoResult
    /\ ClientConstructed
    /\ NoDatabase
    /\ AtsIdle
    /\ MoreIdle

\* the loop body for index i: the loop is entered while in_range holds and
\* left once converged holds
OptBody(in_range, converged) ==
    /\ opt_pc = "loop"
    /\ in_range
    /\ LET it == optimize_iteration(current_resume, jd_analysis)
           gaps == identify_keyword_gaps(current_resume.raw,
                                         jd_analysis.keyword_importance)
           iteration_result == [iteration |-> i + 1,
                                score |-> it.score,
                                gaps |-> Take(gaps, 5),
                                improvements |-> <<>>]
           its == Append(iterations, iteration_result)
       IN /\ iterations' = its
          /\ IF converged
             THEN /\ opt_pc' = "done"
                  /\ opt_result' = OptResult(its, current_resume)
                  /\ UNCHANGED <<i, current_resume>>
             ELSE /\ current_resume' = it.optimized
                  /\ i' = i + 1
                  /\ UNCHANGED <<opt_pc, opt_result>>
    /\ UNCHANGED <<base_resume, jd_analysis, target_score, max_iterations>>
    /\ UNCHANGED <<db_vars, ats_vars, more_vars>>

ReachedTarget(score) == RatGE(score, Rat(target_score, 1))

\* score >= target_score, for the score of this pass
Converged == ReachedTarget(optimize_iteration(current_resume, jd_analysis).score)

\* range(max_iterations + 1)
OptIterate_OneMore == OptBody(i <= max_iterations, Converged)

\* the convergence check is missing
OptIterate_NoBreak == OptBody(i < max_iterations, FALSE)

\* one pass of the body of "for i in range(max_iterations)"
OptIterate == OptBody(i < max_iterations, Converged)

\* the range is exhausted: the function returns
OptExhausted ==
    /\ opt_pc = "loop"
    /\ i >= max_iterations
    /\ opt_pc' = "done"
    /\ opt_result' = OptResult(iterations, current_resume)
    /\ UNCHANGED <<base_resume, jd_analysis, target_score, max_iterations,
                   i, iterations, current_resume>>
    /\ UNCHANGED <<db_vars, ats_vars, more_vars>>

OptNext == OptIterate \/ OptExhausted

SpecOpt == OptInit /\ [][OptNext]_vars

\* the loop is ordinary sequential code: it keeps running until it returns
FairSpecOpt == SpecOpt /\ WF_vars(OptNext)

---------------------------------------------------------------------------
(* Claims about optimize_resume_iteratively *)

\* the 'iteration' fields of the recorded iterations are 1, 2, ..., n
IterationsNumbered ==
    \A k \in DOMAIN iterations : iterations[k].iteration = k

\* C1: optimize_resume_iteratively always terminates, and at every moment it
\* has recorded at most max_iterations iterations, numbered 1, 2, ..., n in
\* that order.
C1_TerminatesWithinMaxIterations ==
    /\ <>(opt_pc = "done")
    /\ [](Len(iterations) <= max_iterations /\ IterationsNumbered)

\* a call that ran out of iterations: it returned max_iterations >= 2 of them
C1_Witness ==
    /\ opt_pc = "done"
    /\ max_iterations >= 2
    /\ Len(opt_result.iterations) = max_iterations

\* C2: no iteration is recorded after one whose score is >= target_score, and
\* a call in which no iteration reaches target_score returns exactly
\* max_iterations iterations.
C2_StopsAtFirstConvergedIteration ==
    /\ \A k \in DOMAIN iterations :
          ReachedTarget(iterations[k].score) => k = Len(iterations)
    /\ opt_pc = "done" =>
          /\ opt_result.iterations = iterations
          /\ (\A k \in DOMAIN iterations : ~ReachedTarget(iterations[k].score))
                => Len(iterations) = max_iterations

\* a call that stopped at its first iteration with iterations to spare
C2_Witness ==
    /\ opt_pc = "done"
    /\ max_iterations >= 2
    /\ Len(opt_result.iterations) = 1
    /\ ReachedTarget(opt_result.iterations[1].score)
    /\ target_score > 0

\* C3: the score never decreases from one recorded iteration to the next.
C3_ScoresNeverDecrease ==
    \A k \in DOMAIN iterations :
        k > 1 => RatGE(iterations[k].score, iterations[k - 1].score)

\* two iterations recorded, with a score that is neither 0 nor 100
C3_Witness ==
    /\ Len(iterations) >= 2
    /\ iterations[2].score.n > 0
    /\ ~RatGE(iterations[2].score, Rat(100, 1))

(* C19: in every iteration record of optimize_resume_iteratively, 'gaps'
   holds at most 5 keywords and each of them is missing from the resume text
   the record's 'score' was computed from: the 'raw' text of the resume of
   that pass or, when that is empty, the text built from its 'sections'. *)
C19_GapsAreMissingFromScoredText ==
    [][ iterations' # iterations =>
          LET record == iterations'[Len(iterations')]
              scored == ScoredText(current_resume)
          IN /\ record.score = calculate_ats_score(scored,
                                   jd_analysis.keyword_importance)
             /\ Len(record.gaps) <= 5
             /\ \A n \in DOMAIN record.gaps : ~InText(record.gaps[n], scored)
      ]_vars


---------------------------------------------------------------------------
(* db.models *)

\* The applications table is modelled with one column for each way
\* create_application and update_application bind a value: a string as it
\* is (company), an enum by its .value (status), a bool as an int
\* (cover_letter_used).
Columns == <<"company", "status", "cover_letter_used">>

Companies == {"Acme", "Initech"}
StatusMembers == {"ApplicationStatus.APPLIED", "ApplicationStatus.OFFER"}

\* member.value
EnumValue(member) ==
    CASE member = "ApplicationStatus.APPLIED" -> "applied"
      [] member = "ApplicationStatus.OFFER"   -> "offer"

\* ApplicationStatus(value)
EnumMember(value) ==
    CASE value = "applied" -> "ApplicationStatus.APPLIED"
      [] value = "offer"   -> "ApplicationStatus.OFFER"

\* Python's bool values
PyBools == {"True", "False"}

\* int(b)
IntOfBool(b) == IF b = "True" THEN 1 ELSE 0

\* bool(n)
BoolOfInt(n) == IF n = 0 THEN "False" ELSE "True"

ApplicationCreates ==
    [company : Companies, status : StatusMembers, cover_letter_used : PyBools]

\* the values a field of ApplicationUpdate can be set to
FieldValues(field) ==
    CASE field = "company"           -> Companies
      [] field = "status"            -> StatusMembers
      [] field = "cover_letter_used" -> PyBools

\* An ApplicationUpdate is the function from the fields that were set to
\* their values: model_dump(exclude_unset=True).
ApplicationUpdates ==
    UNION { { u \in [fs -> Companies \cup StatusMembers \cup PyBools] :
                \A f \in fs : u[f] \in FieldValues(f) } :
            fs \in SUBSET { Columns[c] : c \in DOMAIN Columns } }

\* the rows the applications table can hold
Rows(ids) ==
    [id : ids, company : Companies, status : {"applied", "offer"},
     cover_letter_used : {0, 1}]

\* the constraints Application(**row) checks: company has min_length 1 and
\* status is a value of ApplicationStatus
ValidApplication(row) ==
    /\ row.company # ""
    /\ row.status \in {"applied", "offer"}

\* Application(**row), for a row that passes validation
ParseApplication(row) ==
    [id |-> row.id,
     company |-> row.company,
     status |-> EnumMember(row.status),
     cover_letter_used |-> BoolOfInt(row.cover_letter_used)]

---------------------------------------------------------------------------
(* db.client: the queries *)

\* A query is its SQL text, a sequence of fragments, and its bound
\* parameters.
Query(sql, params) == [sql |-> sql, params |-> params]

\* sep.join(parts), each part a sequence of fragments
RECURSIVE Join(_, _)
Join(parts, sep) ==
    IF parts = <<>> THEN <<>>
    ELSE IF Len(parts) = 1 THEN parts[1]
    ELSE parts[1] \o <<sep>> \o Join(Tail(parts), sep)

create_application_query(app) ==
    Query(<<"INSERT INTO applications", "(company, status, cover_letter_used)",
            "VALUES (?, ?, ?)", "RETURNING *">>,
          <<app.company, EnumValue(app.status), IntOfBool(app.cover_letter_used)>>)

get_application_query(application_id) ==
    Query(<<"SELECT * FROM applications", "WHERE", "id = ?">>, <<application_id>>)

\* bool(v) of an optional string: None and "" are false
Truthy(v) == v \notin {"None", ""}

\* bool(n) of an optional int, 0 standing for None as well: both are false
TruthyInt(n) == n # 0

get_applications_query(status, company, limit, offset, order_by) ==
    LET conditions == (IF Truthy(status) THEN << <<"status = ?">> >> ELSE <<>>)
                      \o (IF Truthy(company) THEN << <<"company LIKE ?">> >> ELSE <<>>)
        params == (IF Truthy(status) THEN <<status>> ELSE <<>>)
                  \o (IF Truthy(company) THEN << <<"%", company, "%">> >> ELSE <<>>)
        where_clause == IF conditions # <<>>
                        THEN <<"WHERE">> \o Join(conditions, "AND") ELSE <<>>
    IN Query(<<"SELECT * FROM applications">> \o where_clause
               \o <<"ORDER BY", order_by, "LIMIT ? OFFSET ?">>,
             params \o <<limit, offset>>)

\* the value update_application binds for a field's value: the enum field's
\* values have a .value, the bool field's values are bools
BoundValue(field, value) ==
    CASE field = "status"            -> EnumValue(value)
      [] field = "cover_letter_used" -> IntOfBool(value)
      [] OTHER                       -> value

\* the fields of update_data, in the order the model declares them
RECURSIVE SetFields(_, _)
SetFields(update_data, cols) ==
    IF cols = <<>> THEN <<>>
    ELSE (IF Head(cols) \in DOMAIN update_data THEN <<Head(cols)>> ELSE <<>>)
         \o SetFields(update_data, Tail(cols))

update_application_query(application_id, update_data) ==
    LET keys == SetFields(update_data, Columns)
        set_clauses == [k \in DOMAIN keys |-> <<keys[k], "= ?">>]
        params == [k \in DOMAIN keys |-> BoundValue(keys[k], update_data[keys[k]])]
    IN Query(<<"UPDATE applications", "SET">> \o Join(set_clauses, ",")
               \o <<"WHERE", "id = ?", "RETURNING *">>,
             params \o <<application_id>>)

delete_application_query(application_id) ==
    Query(<<"DELETE FROM applications", "WHERE", "id = ?">>, <<application_id>>)

create_interview_query(interview) ==
    Query(<<"INSERT INTO interviews", "(application_id, interview_date, interview_type)",
            "VALUES (?, ?, ?)", "RETURNING *">>,
          <<interview.application_id, interview.interview_date, interview.interview_type>>)

get_interviews_query(application_id, limit, offset) ==
    IF TruthyInt(application_id)
    THEN Query(<<"SELECT * FROM interviews", "WHERE", "application_id = ?",
                 "ORDER BY", "interview_date DESC", "LIMIT ? OFFSET ?">>,
               <<application_id, limit, offset>>)
    ELSE Query(<<"SELECT * FROM interviews",
                 "ORDER BY", "interview_date DESC", "LIMIT ? OFFSET ?">>,
               <<limit, offset>>)

\* update_data is the function from the fields set on the InterviewUpdate
update_interview_query(interview_id, update_data) ==
    IF DOMAIN update_data = {}
    THEN Query(<<"SELECT * FROM interviews", "WHERE", "id = ?">>, <<interview_id>>)
    ELSE LET keys == SetFields(update_data, <<"interview_date", "result">>)
             set_clauses == [k \in DOMAIN keys |-> <<keys[k], "= ?">>]
             params == [k \in DOMAIN keys |-> update_data[keys[k]]]
         IN Query(<<"UPDATE interviews", "SET">> \o Join(set_clauses, ",")
                    \o <<"WHERE", "id = ?", "RETURNING *">>,
                  params \o <<interview_id>>)

get_application_stages_query(application_id) ==
    Query(<<"SELECT * FROM application_stages", "WHERE", "application_id = ?",
            "ORDER BY", "stage_date DESC, created_at DESC">>, <<application_id>>)

get_metrics_query(start_date, end_date, limit) ==
    LET conditions == (IF Truthy(start_date) THEN << <<"metric_date >= ?">> >> ELSE <<>>)
                      \o (IF Truthy(end_date) THEN << <<"metric_date <= ?">> >> ELSE <<>>)
        params == (IF Truthy(start_date) THEN <<start_date>> ELSE <<>>)
                  \o (IF Truthy(end_date) THEN <<end_date>> ELSE <<>>)
        where_clause == IF conditions # <<>>
                        THEN <<"WHERE">> \o Join(conditions, "AND") ELSE <<>>
    IN Query(<<"SELECT * FROM metrics">> \o where_clause
               \o <<"ORDER BY", "metric_date DESC", "LIMIT ?">>,
             params \o <<limit>>)

upsert_metrics_query(metrics) ==
    Query(<<"INSERT INTO metrics", "(metric_date, total_applications)", "VALUES (?, ?)",
            "ON CONFLICT(metric_date) DO UPDATE SET",
            "total_applications = excluded.total_applications", "RETURNING *">>,
          <<metrics.metric_date, metrics.total_applications>>)

upsert_keyword_performance_query(keyword_perf) ==
    Query(<<"INSERT INTO keyword_performance", "(keyword, total_uses)", "VALUES (?, ?)",
            "ON CONFLICT(keyword) DO UPDATE SET",
            "total_uses = excluded.total_uses", "RETURNING *">>,
          <<keyword_perf.keyword, keyword_perf.total_uses>>)

get_top_keywords_query(limit) ==
    Query(<<"SELECT * FROM v_top_keywords", "LIMIT ?">>, <<limit>>)

get_active_applications_query(limit) ==
    Query(<<"SELECT * FROM v_active_applications", "LIMIT ?">>, <<limit>>)

get_pipeline_summary_query == Query(<<"SELECT * FROM v_pipeline_summary">>, <<>>)

get_interview_performance_query == Query(<<"SELECT * FROM v_interview_performance">>, <<>>)

\* execute(query, params): params or [], <<>> standing for None as well
execute_query(query, params) == Query(query, params)

---------------------------------------------------------------------------
(* The database server: what it does with a query it receives.  The
   applications table is a function from the ids of its rows to the rows;
   the other tables and the views are not modelled, and a query on one of
   them may return any rows the statement allows. *)

Ids(table) == DOMAIN table

RECURSIVE MaxOf(_)
MaxOf(S) == IF S = {} THEN 0
            ELSE LET x == CHOOSE y \in S : TRUE
                     m == MaxOf(S \ {x})
                 IN IF x > m THEN x ELSE m

\* the elements of a set of numbers in increasing order
RECURSIVE Ascending(_)
Ascending(S) ==
    IF S = {} THEN <<>>
    ELSE LET m == MaxOf(S) IN Append(Ascending(S \ {m}), m)

\* the position of fragment f in sql, 0 when absent
Position(sql, f) ==
    IF \E n \in DOMAIN sql : sql[n] = f
    THEN CHOOSE n \in DOMAIN sql : sql[n] = f /\ \A k \in 1..(n - 1) : sql[k] # f
    ELSE 0

\* the columns a SET clause assigns, in order
SetColumns(sql) ==
    SelectSeq(sql, LAMBDA f : \E c \in DOMAIN Columns : Columns[c] = f)

\* row with the columns cols[1..] set to values[1..]
RECURSIVE Assign(_, _, _)
Assign(row, cols, values) ==
    IF cols = <<>> THEN row
    ELSE Assign([row EXCEPT ![Head(cols)] = Head(values)], Tail(cols), Tail(values))

\* SELECT * FROM applications [WHERE ...] ORDER BY ... LIMIT ? OFFSET ?
\* the rows come in id order: the ORDER BY text is the caller's
SelectApplications(table, sql, params) ==
    LET by_status == Position(sql, "status = ?") # 0
        by_company == Position(sql, "company LIKE ?") # 0
        status == params[1]
        company == IF by_status THEN params[2][2] ELSE params[1][2]
        keep(r) == /\ by_status => r.status = status
                   /\ by_company => SubstrOf(Lower(company), Lower(r.company))
        ids == SelectSeq(Ascending(Ids(table)), LAMBDA n : keep(table[n]))
        limit == params[Len(params) - 1]
        offset == params[Len(params)]
        last == IF Len(ids) < offset + limit THEN Len(ids) ELSE offset + limit
    IN [k \in 1..(IF last > offset THEN last - offset ELSE 0) |-> table[ids[offset + k]]]

\* the replies the database can give: the rows returned, rows_affected and
\* the applications table afterwards
DbExecute(table, sql, params) ==
    CASE sql[1] = "INSERT INTO applications" ->
           LET row == [id |-> MaxOf(Ids(table)) + 1, company |-> params[1],
                       status |-> params[2], cover_letter_used |-> params[3]]
           IN { [rows |-> <<row>>, rows_affected |-> 1,
                 table |-> [n \in Ids(table) \cup {row.id} |->
                              IF n = row.id THEN row ELSE table[n]]] }
      [] sql[1] = "SELECT * FROM applications" /\ Position(sql, "id = ?") # 0 ->
           { [rows |-> IF params[1] \in Ids(table) THEN <<table[params[1]]>> ELSE <<>>,
              rows_affected |-> 0, table |-> table] }
      [] sql[1] = "SELECT * FROM applications" /\ Position(sql, "id = ?") = 0 ->
           { [rows |-> SelectApplications(table, sql, params),
              rows_affected |-> 0, table |-> table] }
      [] sql[1] = "UPDATE applications" ->
           LET id == params[Len(params)]
           IN IF id \in Ids(table)
              THEN LET row == Assign(table[id], SetColumns(sql), params)
                   IN { [rows |-> <<row>>, rows_affected |-> 1,
                         table |-> [table EXCEPT ![id] = row]] }
              ELSE { [rows |-> <<>>, rows_affected |-> 0, table |-> table] }
      [] sql[1] = "DELETE FROM applications" ->
           { [rows |-> <<>>,
              rows_affected |-> IF params[1] \in Ids(table) THEN 1 ELSE 0,
              table |-> [n \in Ids(table) \ {params[1]} |-> table[n]]] }
      [] sql[1] \in {"INSERT INTO interviews", "INSERT INTO metrics",
                     "INSERT INTO keyword_performance"} ->
           { [rows |-> <<"row">>, rows_affected |-> 1, table |-> table] }
      [] OTHER ->
           { [rows |-> rows, rows_affected |-> 0, table |-> table] :
               rows \in {<<>>, <<"row">>} }

---------------------------------------------------------------------------
(* db.client: TursoClient *)

\* returns self.client unchecked
ensure_connected_Unchecked == [raised |-> FALSE, client |-> client]

\* _ensure_connected: raises RuntimeError when self.client is None
ensure_connected ==
    IF client = 0
    THEN [raised |-> TRUE, client |-> 0]
    ELSE [raised |-> FALSE, client |-> client]

\* the model class the rows of an operation are parsed into
ModelOf(op) ==
    CASE op \in {"create_interview", "get_interviews", "update_interview"} -> "Interview"
      [] op = "get_application_stages" -> "ApplicationStage"
      [] op \in {"get_metrics", "upsert_metrics"} -> "Metrics"
      [] op = "upsert_keyword_performance" -> "KeywordPerformance"
      [] op = "get_top_keywords" -> "TopKeyword"
      [] op = "get_active_applications" -> "ActiveApplication"
      [] op = "get_pipeline_summary" -> "PipelineSummary"
      [] op = "get_interview_performance" -> "InterviewPerformance"

\* what an operation returns for the database's reply
ReturnOf(op, reply) ==
    CASE op = "create_application" ->
           IF ~ValidApplication(reply.rows[1]) THEN Raised("ValidationError")
           ELSE ReturnedModels("Application", 1, <<ParseApplication(reply.rows[1])>>)
      [] op \in {"get_application", "update_application"} ->
           IF reply.rows = <<>> THEN Returned("None")
           ELSE IF ~ValidApplication(reply.rows[1]) THEN Raised("ValidationError")
           ELSE ReturnedModels("Application", 1, <<ParseApplication(reply.rows[1])>>)
      [] op = "get_applications" ->
           IF \E k \in DOMAIN reply.rows : ~ValidApplication(reply.rows[k])
           THEN Raised("ValidationError")
           ELSE ReturnedModels("list[Application]", Len(reply.rows),
                               [k \in DOMAIN reply.rows |-> ParseApplication(reply.rows[k])])
      [] op = "delete_application" ->
           Returned(IF reply.rows_affected > 0 THEN "True" ELSE "False")
      [] op \in {"create_interview", "upsert_metrics", "upsert_keyword_performance"} ->
           ReturnedModels(ModelOf(op), 1, <<>>)
      [] op = "update_interview" ->
           IF reply.rows = <<>> THEN Returned("None")
           ELSE ReturnedModels(ModelOf(op), 1, <<>>)
      [] op = "execute" ->
           ReturnedModels("ResultSet", Len(reply.rows), <<>>)
      [] OTHER ->
           ReturnedModels(ModelOf(op), Len(reply.rows), <<>>)

\* task t is between calls, and not inside __aexit__
Ready(t) == task_pc[t] = "idle" /\ cm[t] \notin {"exiting", "exiting_exc"}

\* await self._ensure_connected().execute(q.sql, q.params), and the return
\* of operation op that follows it
Execute(t, op, supplied, q) ==
    /\ Ready(t)
    /\ LET c == ensure_connected
       IN IF c.raised
          THEN /\ outcome' = [outcome EXCEPT ![t] = Raised("RuntimeError")]
               /\ UNCHANGED <<n_sent, last_sent, applications>>
          ELSE IF c.client = 0
          THEN \* None has no attribute execute
               /\ outcome' = [outcome EXCEPT ![t] = Raised("AttributeError")]
               /\ UNCHANGED <<n_sent, last_sent, applications>>
          ELSE IF conns[c.client] = "closed"
          THEN \* the libsql client refuses: it is closed
               /\ outcome' = [outcome EXCEPT ![t] = Raised("LibsqlError")]
               /\ UNCHANGED <<n_sent, last_sent, applications>>
          ELSE /\ n_sent < MaxSent
               /\ n_sent' = n_sent + 1
               /\ last_sent' = [op |-> op, supplied |-> supplied, sql |-> q.sql]
               /\ \E reply \in DbExecute(applications, q.sql, q.params) :
                    /\ applications' = reply.table
                    /\ outcome' = [outcome EXCEPT ![t] = ReturnOf(op, reply)]
    /\ UNCHANGED <<client, conns, task_pc, cm>>
    /\ UNCHANGED <<opt_vars, ats_vars, more_vars>>

create_application(t, app) ==
    /\ MaxOf(Ids(applications)) < MaxRows
    /\ Execute(t, "create_application", {}, create_application_query(app))

get_application(t, application_id) ==
    Execute(t, "get_application", {}, get_application_query(application_id))

get_applications(t, status, company, limit, offset, order_by) ==
    Execute(t, "get_applications",
            {a \in {"status"} : Truthy(status)} \cup {a \in {"company"} : Truthy(company)},
            get_applications_query(status, company, limit, offset, order_by))

\* update.model_dump(exclude_unset=True): the fields that were set
model_dump_exclude_unset(update) == update

\* update_application without "if not update_data: return ..."
update_application_AlwaysUpdates(t, application_id, update) ==
    LET update_data == model_dump_exclude_unset(update)
    IN Execute(t, "update_application", DOMAIN update_data,
               update_application_query(application_id, update_data))

update_application(t, application_id, update) ==
    LET update_data == model_dump_exclude_unset(update)
    IN IF DOMAIN update_data = {}
       THEN Execute(t, "update_application", {}, get_application_query(application_id))
       ELSE Execute(t, "update_application", DOMAIN update_data,
                    update_application_query(application_id, update_data))

delete_application(t, application_id) ==
    Execute(t, "delete_application", {}, delete_application_query(application_id))

create_interview(t, interview) ==
    Execute(t, "create_interview", {}, create_interview_query(interview))

get_interviews(t, application_id, limit, offset) ==
    Execute(t, "get_interviews", {a \in {"application_id"} : TruthyInt(application_id)},
            get_interviews_query(application_id, limit, offset))

update_interview(t, interview_id, update) ==
    Execute(t, "update_interview", DOMAIN update,
            update_interview_query(interview_id, update))

get_application_stages(t, application_id) ==
    Execute(t, "get_application_stages", {},
            get_application_stages_query(application_id))

get_metrics(t, start_date, end_date, limit) ==
    Execute(t, "get_metrics",
            {a \in {"start_date"} : Truthy(start_date)}
              \cup {a \in {"end_date"} : Truthy(end_date)},
            get_metrics_query(start_date, end_date, limit))

upsert_metrics(t, metrics) ==
    Execute(t, "upsert_metrics", {}, upsert_metrics_query(metrics))

upsert_keyword_performance(t, keyword_perf) ==
    Execute(t, "upsert_keyword_performance", {},
            upsert_keyword_performance_query(keyword_perf))

get_top_keywords(t, limit) ==
    Execute(t, "get_top_keywords", {}, get_top_keywords_query(limit))

get_active_applications(t, limit) ==
    Execute(t, "get_active_applications", {}, get_active_applications_query(limit))

get_pipeline_summary(t) ==
    Execute(t, "get_pipeline_summary", {}, get_pipeline_summary_query)

get_interview_performance(t) ==
    Execute(t, "get_interview_performance", {}, get_interview_performance_query)

execute(t, query, params) ==
    Execute(t, "execute", {}, execute_query(query, params))

\* connect(): a new libsql client replaces self.client
Connect(t) ==
    /\ Len(conns) < MaxConns
    /\ conns' = Append(conns, "open")
    /\ client' = Len(conns) + 1

connect(t) ==
    /\ Ready(t)
    /\ Connect(t)
    /\ outcome' = [outcome EXCEPT ![t] = Returned("None")]
    /\ UNCHANGED <<task_pc, cm, n_sent, last_sent, applications>>
    /\ UNCHANGED <<opt_vars, ats_vars, more_vars>>

\* close() up to its await: the libsql client's close() is called when
\* self.client is set, and the task waits for it
CloseCall(t) ==
    IF client # 0
    THEN /\ conns' = [conns EXCEPT ![client] = "closed"]
         /\ task_pc' = [task_pc EXCEPT ![t] = "closing"]
         /\ UNCHANGED outcome
    ELSE /\ outcome' = [outcome EXCEPT ![t] = Returned("None")]
         /\ UNCHANGED <<conns, task_pc>>

close(t) ==
    /\ Ready(t)
    /\ CloseCall(t)
    /\ UNCHANGED <<client, cm, n_sent, last_sent, applications>>
    /\ UNCHANGED <<opt_vars, ats_vars, more_vars>>

\* close() after its await: self.client = None
close_resume(t) ==
    /\ task_pc[t] = "closing"
    /\ client' = 0
    /\ task_pc' = [task_pc EXCEPT ![t] = "idle"]
    /\ outcome' = [outcome EXCEPT ![t] = Returned("None")]
    /\ UNCHANGED <<conns, cm, n_sent, last_sent, applications>>
    /\ UNCHANGED <<opt_vars, ats_vars, more_vars>>

\* "async with client:" is entered: __aenter__ awaits connect()
aenter(t) ==
    /\ Ready(t)
    /\ cm[t] = "outside"
    /\ Connect(t)
    /\ cm' = [cm EXCEPT ![t] = "inside"]
    /\ outcome' = [outcome EXCEPT ![t] = Returned("self")]
    /\ UNCHANGED <<task_pc, n_sent, last_sent, applications>>
    /\ UNCHANGED <<opt_vars, ats_vars, more_vars>>

\* __aexit__ that does not close
LeaveBlock_NoClose(t, raising) ==
    /\ Ready(t)
    /\ cm[t] = "inside"
    /\ cm' = [cm EXCEPT ![t] = IF raising THEN "exiting_exc" ELSE "exiting"]
    /\ UNCHANGED <<client, conns, task_pc, outcome, n_sent, last_sent, applications>>
    /\ UNCHANGED <<opt_vars, ats_vars, more_vars>>

\* the block is left, by reaching its end or by an exception raised in it:
\* __aexit__ is called and awaits close()
LeaveBlock(t, raising) ==
    /\ Ready(t)
    /\ cm[t] = "inside"
    /\ cm' = [cm EXCEPT ![t] = IF raising THEN "exiting_exc" ELSE "exiting"]
    /\ CloseCall(t)
    /\ UNCHANGED <<client, n_sent, last_sent, applications>>
    /\ UNCHANGED <<opt_vars, ats_vars, more_vars>>

\* what __aexit__ returns
aexit_returns == "None"

\* __aexit__ returns: an exception raised in the block propagates unless
\* the value returned is true
aexit(t) ==
    /\ task_pc[t] = "idle"
    /\ cm[t] \in {"exiting", "exiting_exc"}
    /\ cm' = [cm EXCEPT ![t] = IF cm[t] = "exiting_exc" /\ ~Truthy(aexit_returns)
                               THEN "left_exc" ELSE "left"]
    /\ UNCHANGED <<client, conns, task_pc, outcome, n_sent, last_sent, applications>>
    /\ UNCHANGED <<opt_vars, ats_vars, more_vars>>

---------------------------------------------------------------------------
(* One task using a TursoClient from its construction on. *)

DbTasks == {"t1"}
DbIds == 1..MaxRows
DbCreates == {[company |-> "Acme", status |-> "ApplicationStatus.APPLIED",
               cover_letter_used |-> "False"]}
DbUpdates == {u \in ApplicationUpdates : DOMAIN u \subseteq {"company"}}
OptionalStatuses == {"None", "applied", "offer"}
OptionalCompanies == {"None", "", "Acme", "acme"}
OrderBys == {"applied_date DESC", "company ASC"}
Limits == {1, 100}
Offsets == {0, 1}
OptionalDates == {"None", "2024-01-01", "2024-02-01"}
Interviews == [application_id : DbIds, interview_date : {"2024-01-15"},
               interview_type : {"phone_screen", "technical"}]
InterviewUpdates == {<<>>} \cup [{"result"} -> {"passed", "rejected"}]
MetricsRecords == [metric_date : {"2024-01-01"}, total_applications : {0, 1}]
KeywordPerformances == [keyword : {"python", "sql"}, total_uses : {1}]
RawQueries == {<<"SELECT 1">>, <<"DELETE FROM interviews", "WHERE", "id = ?">>}
RawParams == {<<>>, <<1>>}

ApplicationOperation(t) ==
    \/ \E app \in DbCreates : create_application(t, app)
    \/ \E application_id \in DbIds : get_application(t, application_id)
    \/ \E status \in OptionalStatuses, company \in OptionalCompanies,
          limit \in Limits, offset \in Offsets, order_by \in OrderBys :
         get_applications(t, status, company, limit, offset, order_by)
    \/ \E application_id \in DbIds, update \in DbUpdates :
         update_application(t, application_id, update)
    \/ \E application_id \in DbIds : delete_application(t, application_id)

InterviewOperation(t) ==
    \/ \E interview \in Interviews : create_interview(t, interview)
    \/ \E application_id \in {0} \cup DbIds, limit \in Limits, offset \in Offsets :
         get_interviews(t, application_id, limit, offset)
    \/ \E interview_id \in DbIds, update \in InterviewUpdates :
         update_interview(t, interview_id, update)
    \/ \E application_id \in DbIds : get_application_stages(t, application_id)

MetricsOperation(t) ==
    \/ \E start_date \in OptionalDates, end_date \in OptionalDates, limit \in Limits :
         get_metrics(t, start_date, end_date, limit)
    \/ \E metrics \in MetricsRecords : upsert_metrics(t, metrics)
    \/ \E keyword_perf \in KeywordPerformances : upsert_keyword_performance(t, keyword_perf)
    \/ \E limit \in Limits : get_top_keywords(t, limit)

ViewOperation(t) ==
    \/ \E limit \in Limits : get_active_applications(t, limit)
    \/ get_pipeline_summary(t)
    \/ get_interview_performance(t)

RawOperation(t) ==
    \E query \in RawQueries, params \in RawParams : execute(t, query, params)

\* a call of any database operation by task t
DbOperation(t) ==
    \/ ApplicationOperation(t)
    \/ InterviewOperation(t)
    \/ MetricsOperation(t)
    \/ ViewOperation(t)
    \/ RawOperation(t)

DbInit == ClientConstructed /\ NoDatabase /\ OptIdle /\ AtsIdle /\ MoreIdle

DbNext ==
    \E t \in DbTasks :
        \/ connect(t)
        \/ close(t)
        \/ close_resume(t)
        \/ aenter(t)
        \/ \E raising \in BOOLEAN : LeaveBlock(t, raising)
        \/ aexit(t)
        \/ ApplicationOperation(t)
        \/ InterviewOperation(t)
        \/ MetricsOperation(t)
        \/ ViewOperation(t)
        \/ RawOperation(t)

SpecDb == DbInit /\ [][DbNext]_vars

---------------------------------------------------------------------------
(* Claims about the TursoClient *)

\* C4: a database operation called while the client is not connected
\* (self.client is None: before the first connect() or after close())
\* raises RuntimeError, and no query is sent to the database.
C4_NotConnectedRaisesRuntimeError ==
    [][\A t \in DbTasks :
         client = 0 /\ DbOperation(t)
           => /\ outcome'[t].kind = "raised"
              /\ outcome'[t].value = "RuntimeError"
              /\ n_sent' = n_sent
              /\ last_sent' = last_sent
              /\ applications' = applications]_vars

\* an operation has raised RuntimeError on a client that was connected,
\* was used, and was closed
C4_Witness ==
    /\ client = 0
    /\ conns # <<>>
    /\ n_sent > 0
    /\ outcome["t1"].kind = "raised"
    /\ outcome["t1"].value = "RuntimeError"

\* C5: entering the block connects; leaving it, normally or by an
\* exception, closes the connection the client holds; when __aexit__ has
\* returned the client is not connected, and the block is left by the
\* exception exactly when one was raised in it.
C5_ContextManagerConnectsAndCloses ==
    [][\A t \in DbTasks :
         /\ cm[t] = "outside" /\ cm'[t] = "inside"
              => client' # 0 /\ conns'[client'] = "open"
         /\ cm[t] = "inside" /\ cm'[t] \in {"exiting", "exiting_exc"} /\ client # 0
              => conns'[client] = "closed"
         /\ cm[t] = "inside" /\ cm'[t] # "inside"
              => cm'[t] \in {"exiting", "exiting_exc"}
         /\ cm[t] \in {"exiting", "exiting_exc"} /\ cm'[t] # cm[t]
              => /\ client' = 0
                 /\ cm'[t] = IF cm[t] = "exiting_exc" THEN "left_exc" ELSE "left"]_vars

\* a block that used the connection was left by an exception: the client is
\* not connected and its connection is closed
C5_Witness ==
    /\ cm["t1"] = "left_exc"
    /\ client = 0
    /\ n_sent > 0
    /\ conns # <<>>
    /\ \A k \in DOMAIN conns : conns[k] = "closed"

\* C6: two consecutive queries sent by the same operation, other than
\* execute(), with the same arguments supplied, have the same SQL text.
C6_SameSqlWhateverTheValues ==
    [][/\ n_sent' = n_sent + 1
       /\ last_sent'.op = last_sent.op
       /\ last_sent'.op # "execute"
       /\ last_sent'.supplied = last_sent.supplied
       => last_sent'.sql = last_sent.sql]_vars

(* C26: for any sequence of connect() and close() calls on one TursoClient,
   when a close() returns every connection that connect() has created is
   closed, and close() on a client that is not connected does nothing. *)
C26_CloseLeavesNoConnectionOpen ==
    [][\A t \in DbTasks :
         /\ close_resume(t) => \A k \in DOMAIN conns' : conns'[k] = "closed"
         /\ client = 0 /\ close(t)
              => /\ client' = 0
                 /\ conns' = conns
                 /\ outcome'[t] = Returned("None")]_vars

---------------------------------------------------------------------------
(* Two tasks sharing one TursoClient: connecting, closing and using it as
   a context manager. *)

TwoTasksNext ==
    \E t \in AllTasks :
        \/ connect(t)
        \/ close(t)
        \/ close_resume(t)
        \/ aenter(t)
        \/ \E raising \in BOOLEAN : LeaveBlock(t, raising)
        \/ aexit(t)

SpecDbTwoTasks == DbInit /\ [][TwoTasksNext]_vars

(* C27: when two tasks call close() or __aexit__ on the same connected
   TursoClient at the same time, close() of the underlying client is
   called once only, never on a connection that is closed already, and
   when a close() returns the TursoClient is not connected. *)
C27_ConcurrentCloseClosesOnce ==
    [][\A t \in AllTasks :
         /\ (client # 0 /\ (close(t) \/ \E raising \in BOOLEAN : LeaveBlock(t, raising)))
              => conns[client] = "open"
         /\ close_resume(t) => client' = 0]_vars

---------------------------------------------------------------------------
(* A connected TursoClient over an applications table that holds any rows:
   the first query it sends. *)

\* the applications tables: each row under its id
AppTables ==
    UNION { { tb \in [ids -> Rows(DbIds)] : \A n \in ids : tb[n].id = n } :
            ids \in SUBSET DbIds }

AppInit ==
    /\ client = 1
    /\ conns = <<"open">>
    /\ task_pc = [t \in AllTasks |-> "idle"]
    /\ outcome = [t \in AllTasks |-> NoCall]
    /\ cm = [t \in AllTasks |-> "outside"]
    /\ n_sent = 0
    /\ last_sent = NoQuery
    /\ applications \in AppTables
    /\ OptIdle
    /\ AtsIdle
    /\ MoreIdle

AppNext ==
    \E t \in DbTasks :
        /\ n_sent = 0
        /\ \/ \E application_id \in DbIds, update \in ApplicationUpdates :
                update_application(t, application_id, update)
           \/ \E application_id \in DbIds : get_application(t, application_id)

SpecDbApp == AppInit /\ [][AppNext]_vars

\* C7: update_application leaves every other row, and every column of
\* the row that was not set on the ApplicationUpdate, as it was; with no
\* field set it sends no UPDATE and returns the row as it is; with no row
\* of that id it returns None and the table is unchanged.
C7_UpdateChangesOnlySetColumns ==
    [][\A t \in DbTasks, application_id \in DbIds, update \in ApplicationUpdates :
         DOMAIN update = last_sent'.supplied
         /\ update_application(t, application_id, update)
           => /\ DOMAIN applications' = DOMAIN applications
              /\ \A n \in DOMAIN applications \ {application_id} :
                   applications'[n] = applications[n]
              /\ application_id \in DOMAIN applications
                   => /\ \A col \in {"id", "company", "status", "cover_letter_used"}
                                      \ DOMAIN update :
                           applications'[application_id][col]
                             = applications[application_id][col]
                      /\ \A col \in DOMAIN update :
                           applications'[application_id][col]
                             = BoundValue(col, update[col])
              /\ DOMAIN update = {}
                   => /\ last_sent'.sql[1] # "UPDATE applications"
                      /\ applications' = applications
                      /\ outcome'[t].kind = "returned"
                      /\ application_id \in DOMAIN applications
                           => outcome'[t].rows
                                = <<ParseApplication(applications[application_id])>>
              /\ application_id \notin DOMAIN applications
                   => /\ outcome'[t].kind = "returned"
                      /\ outcome'[t].value = "None"
                      /\ applications' = applications]_vars

\* an update that set one column has changed it in one of two rows
C7_Witness ==
    /\ last_sent.op = "update_application"
    /\ last_sent.supplied = {"company"}
    /\ DOMAIN applications = {1, 2}
    /\ outcome["t1"].kind = "returned"
    /\ outcome["t1"].value = "Application"
    /\ outcome["t1"].rows[1].id = 2
    /\ outcome["t1"].rows[1].company = "Initech"
    /\ applications[1].company = "Acme"

---------------------------------------------------------------------------
(* A connected TursoClient and calls that create, update and read
   applications. *)

\* ApplicationUpdate does not constrain its fields: company may be ""
UncheckedUpdates == DbUpdates \cup { [f \in {"company"} |-> ""] }

RowsInit ==
    /\ client = 1
    /\ conns = <<"open">>
    /\ task_pc = [t \in AllTasks |-> "idle"]
    /\ outcome = [t \in AllTasks |-> NoCall]
    /\ cm = [t \in AllTasks |-> "outside"]
    /\ n_sent = 0
    /\ last_sent = NoQuery
    /\ applications \in AppTables
    /\ OptIdle
    /\ AtsIdle
    /\ MoreIdle

RowsNext ==
    \E t \in DbTasks :
        \/ \E app \in DbCreates : create_application(t, app)
        \/ \E application_id \in DbIds, update \in UncheckedUpdates :
             update_application(t, application_id, update)
        \/ \E application_id \in DbIds : get_application(t, application_id)

SpecDbRows == RowsInit /\ [][RowsNext]_vars

(* C25: after any sequence of create_application and update_application
   calls every row of the applications table satisfies the constraints of
   the Application model, and get_application never fails validation. *)
C25_StoredRowsAreValid ==
    /\ \A n \in DOMAIN applications : ValidApplication(applications[n])
    /\ \A t \in DbTasks :
         last_sent.op = "get_application" => outcome[t].value # "ValidationError"

---------------------------------------------------------------------------
(* Texts of several lines.  A text is a sequence of lines and a line a
   sequence of words; the words of a line are one space apart and the
   lines one "\n" apart.  The word " " is white space: it makes a line of
   white space only.  Every text of the model is shorter than 200
   characters. *)

\* str.upper() on the words of the vocabulary
Upper(tok) ==
    CASE tok = "Python"           -> "PYTHON"
      [] tok = "Java"             -> "JAVA"
      [] tok = "Docker"           -> "DOCKER"
      [] tok = "Jan"              -> "JAN"
      [] tok = "Required"         -> "REQUIRED"
      [] tok = "leadership"       -> "LEADERSHIP"
      [] tok = "security"         -> "SECURITY"
      [] tok = "jane@example.com" -> "JANE@EXAMPLE.COM"
      [] OTHER                    -> tok

LowerWords(ws) == [n \in DOMAIN ws |-> Lower(ws[n])]
UpperWords(ws) == [n \in DOMAIN ws |-> Upper(ws[n])]

\* the text as one sequence of words, "\n" between its lines
RECURSIVE Words(_)
Words(text) ==
    IF text = <<>> THEN <<>>
    ELSE IF Len(text) = 1 THEN text[1]
    ELSE text[1] \o <<"\n">> \o Words(Tail(text))

IsSpace(w) == w \in {" ", "\n"}

\* str.strip() on a sequence of words
RECURSIVE StripWords(_)
StripWords(ws) ==
    IF ws = <<>> THEN <<>>
    ELSE IF IsSpace(Head(ws)) THEN StripWords(Tail(ws))
    ELSE IF IsSpace(ws[Len(ws)]) THEN StripWords(SubSeq(ws, 1, Len(ws) - 1))
    ELSE ws

\* phrase in text, both sequences of words: a word may lie inside a word of
\* the text; the words of a longer phrase are whole words of the text
Contains(ws, phrase) ==
    IF phrase = <<>> THEN TRUE
    ELSE IF Len(phrase) = 1 THEN \E n \in DOMAIN ws : SubstrOf(phrase[1], ws[n])
    ELSE \E off \in 0..(Len(ws) - Len(phrase)) :
           \A k \in DOMAIN phrase : ws[off + k] = phrase[k]

\* the number of times w occurs in ws
RECURSIVE Count(_, _)
Count(w, ws) ==
    IF ws = <<>> THEN 0
    ELSE (IF Head(ws) = w THEN 1 ELSE 0) + Count(w, Tail(ws))

Reverse(s) == [n \in DOMAIN s |-> s[Len(s) + 1 - n]]

\* re.findall(r"\b\w+(?:[.\-/+#]\w+)*\b", ...) on one word of the vocabulary
RegexWordsOf(w) ==
    CASE w \in {" ", "\n", "*", "|"} -> <<>>
      [] w = "jane@example.com"      -> <<"jane", "example.com">>
      [] OTHER                       -> <<w>>

RECURSIVE RegexWords(_)
RegexWords(ws) ==
    IF ws = <<>> THEN <<>> ELSE RegexWordsOf(Head(ws)) \o RegexWords(Tail(ws))

---------------------------------------------------------------------------
(* Numbers.  A float is the exact rational it stands for.  Scores are kept
   in hundredths and impacts in tenths once they are rounded.  A value
   exactly halfway between two results of round() goes to either of them,
   as its binary representation falls: tie says which. *)

RatAdd(a, b) == Rat(a.n * b.d + b.n * a.d, a.d * b.d)
RatMul(a, b) == Rat(a.n * b.n, a.d * b.d)
RatLT(a, b) == ~RatGE(a, b)

FloatTies == {"down", "up"}

\* round(r, digits) in units of 1/scale, scale = 10^digits, for r >= 0
Round(r, scale, tie) ==
    LET num == r.n * scale
        floor == num \div r.d
        rem == num % r.d
    IN IF 2 * rem < r.d THEN floor
       ELSE IF 2 * rem > r.d THEN floor + 1
       ELSE IF tie = "up" THEN floor + 1 ELSE floor

---------------------------------------------------------------------------
(* jd_analyzer.analyzer, as far as the ATS scorer uses it.  The keyword
   sets hold the keywords that occur in a text over the vocabulary of the
   model; no text of the model holds a multi-word keyword, a
   "<n> years of experience" pattern or one of the characters . ! ? in a
   job description. *)

TECHNICAL_KEYWORDS == {"python", "java", "docker", "r"}
LEADERSHIP_KEYWORDS == {"leadership", "lead"}
DOMAIN_KEYWORDS == {"security"}
AllKeywords == TECHNICAL_KEYWORDS \cup LEADERSHIP_KEYWORDS \cup DOMAIN_KEYWORDS

\* sorted(): the keywords in alphabetical order
Alphabetical == <<"docker", "java", "lead", "leadership", "python", "r", "security">>

\* The order in which a set of strings is iterated depends on the
\* interpreter's hash seed: an order and its reverse are modelled.
HashSeeds == {"a", "b"}
HashOrder(seed) == IF seed = "a" THEN Alphabetical ELSE Reverse(Alphabetical)

\* the keywords of S in the order given
Ordered(S, order) == SelectSeq(order, LAMBDA k : k \in S)

\* the keywords of dict that are in the lower-case text
KeywordsIn(lower, dict) == {k \in dict : Contains(lower, <<k>>)}

\* keyword_map.get(keyword, keyword): the word of the text, in its own
\* case, that is the keyword; the last one counts
Original(keyword, ws) ==
    LET rw == RegexWords(ws)
        at == {n \in DOMAIN rw : Lower(rw[n]) = keyword}
    IN IF at = {} THEN keyword ELSE rw[MaxOf(at)]

extract_keywords(text, seed) ==
    LET ws == Words(text)
        found == Ordered(KeywordsIn(LowerWords(ws), AllKeywords), HashOrder(seed))
    IN [n \in DOMAIN found |-> Original(found[n], ws)]

CommonImportantWords == {"experience", "required", "preferred", "skills", "knowledge"}

\* the dict as a function from its keys
calculate_keyword_frequency(text) ==
    LET words == RegexWords(LowerWords(Words(text)))
        keys == {w \in AllKeywords \cup CommonImportantWords : Count(w, words) > 0}
    IN [w \in keys |-> Count(w, words)]

\* dict.get(key, default)
Get(dict, key, default) == IF key \in DOMAIN dict THEN dict[key] ELSE default

\* re.search(r"(?:required|must have)[\s\S]{0,200}\b<keyword>\b", text_lower)
RequiredBefore(keyword, lower) ==
    \E a, b \in DOMAIN lower :
        a < b /\ SubstrOf("required", lower[a]) /\ lower[b] = keyword

calculate_keyword_importance(text) ==
    LET frequency == calculate_keyword_frequency(text)
        lower == LowerWords(Words(text))
        max_freq == MaxOf({frequency[k] : k \in DOMAIN frequency})
        boost(k) == RatMul(IF RequiredBefore(k, lower) THEN Rat(3, 2) ELSE Rat(1, 1),
                           IF Contains(lower, <<k>>) THEN Rat(13, 10) ELSE Rat(1, 1))
    IN [k \in DOMAIN frequency |->
          RatMin(RatMul(Rat(frequency[k], max_freq), boost(k)), Rat(1, 1))]

\* a skill is a phrase: a sequence of words
identify_technical_skills(text) ==
    LET found == Ordered(KeywordsIn(LowerWords(Words(text)), TECHNICAL_KEYWORDS),
                         Alphabetical)
    IN [n \in DOMAIN found |-> <<found[n]>>]

\* re.split(r"[.!?]+", text): the text is one sentence
Sentences(text) == IF text = <<>> THEN <<>> ELSE <<Words(text)>>

identify_leadership_skills(text, seed) ==
    LET found == Ordered(KeywordsIn(LowerWords(Words(text)), LEADERSHIP_KEYWORDS),
                         HashOrder(seed))
        leadership_sentences ==
            SelectSeq([n \in DOMAIN Sentences(text) |-> StripWords(Sentences(text)[n])],
                      LAMBDA s : KeywordsIn(LowerWords(s), LEADERSHIP_KEYWORDS) # {})
    IN [n \in DOMAIN found |-> <<found[n]>>] \o Take(leadership_sentences, 3)

identify_domain_expertise(text) ==
    LET found == Ordered(KeywordsIn(LowerWords(Words(text)), DOMAIN_KEYWORDS),
                         Alphabetical)
    IN [n \in DOMAIN found |-> <<found[n]>>]

\* sorted(keywords, key=..., reverse=True): stable, largest key first
RECURSIVE InsertByFrequency(_, _, _)
InsertByFrequency(sorted, k, frequency) ==
    IF sorted = <<>> THEN <<k>>
    ELSE IF Get(frequency, Head(sorted), 0) >= Get(frequency, k, 0)
         THEN <<Head(sorted)>> \o InsertByFrequency(Tail(sorted), k, frequency)
         ELSE <<k>> \o sorted

RECURSIVE SortedByFrequency(_, _)
SortedByFrequency(keywords, frequency) ==
    IF keywords = <<>> THEN <<>>
    ELSE InsertByFrequency(
             SortedByFrequency(SubSeq(keywords, 1, Len(keywords) - 1), frequency),
             keywords[Len(keywords)], frequency)

generate_ats_keywords(text, seed) ==
    SortedByFrequency(extract_keywords(text, seed), calculate_keyword_frequency(text))

\* required_skills and nice_to_have_skills are not read by the scorer
analyze_job_description(text, seed) ==
    [technical_skills |-> identify_technical_skills(text),
     leadership_skills |-> identify_leadership_skills(text, seed),
     domain_expertise |-> identify_domain_expertise(text),
     ats_keywords |-> generate_ats_keywords(text, seed),
     keyword_importance |-> calculate_keyword_importance(text),
     keyword_frequency |-> calculate_keyword_frequency(text)]

---------------------------------------------------------------------------
(* ats_scorer.scorer *)

\* the section names, each a phrase
STANDARD_SECTIONS ==
    { <<"SUMMARY">>, <<"OBJECTIVE">>, <<"PROFESSIONAL", "SUMMARY">>, <<"EXPERIENCE">>,
      <<"WORK", "EXPERIENCE">>, <<"EMPLOYMENT">>, <<"EDUCATION">>, <<"SKILLS">>,
      <<"TECHNICAL", "SKILLS">>, <<"CERTIFICATIONS">>, <<"PROJECTS">> }

\* the order in which the set of section names is iterated
SectionOrder(seed) ==
    LET order == << <<"CERTIFICATIONS">>, <<"EDUCATION">>, <<"EMPLOYMENT">>,
                    <<"EXPERIENCE">>, <<"OBJECTIVE">>, <<"PROFESSIONAL", "SUMMARY">>,
                    <<"PROJECTS">>, <<"SKILLS">>, <<"SUMMARY">>,
                    <<"TECHNICAL", "SKILLS">>, <<"WORK", "EXPERIENCE">> >>
    IN IF seed = "a" THEN order ELSE Reverse(order)

extract_keywords_from_resume(resume_text, seed) ==
    LET keywords == extract_keywords(resume_text, seed)
    IN Ordered({Lower(keywords[n]) : n \in DOMAIN keywords}, HashOrder(seed))

\* x in list
InList(x, list) == \E n \in DOMAIN list : list[n] = x

\* count / total * 1000
Percent_PerThousand(count, total) == Rat(1000 * count, total)

\* count / total * 100
Percent(count, total) == Rat(100 * count, total)

calculate_keyword_match(resume_keywords, jd_keywords, jd_importance, tie) ==
    IF jd_keywords = <<>>
    THEN [score |-> 0, matched_required |-> 0, matched_nice_to_have |-> 0,
          matched_keywords |-> <<>>, missing_keywords |-> <<>>]
    ELSE
    LET resume_kw_lower == LowerWords(resume_keywords)
        jd_kw_lower == LowerWords(jd_keywords)
        IsRequired(k) == RatGE(Get(jd_importance, k, Rat(1, 2)), Rat(7, 10))
        required_keywords ==
            IF DOMAIN jd_importance = {} THEN jd_kw_lower
            ELSE SelectSeq(jd_kw_lower, IsRequired)
        nice_to_have_keywords ==
            IF DOMAIN jd_importance = {} THEN <<>>
            ELSE SelectSeq(jd_kw_lower, LAMBDA k : ~IsRequired(k))
        matched_required ==
            SelectSeq(required_keywords, LAMBDA k : InList(k, resume_kw_lower))
        matched_nice_to_have ==
            SelectSeq(nice_to_have_keywords, LAMBDA k : InList(k, resume_kw_lower))
        required_pct ==
            IF required_keywords # <<>>
            THEN Percent(Len(matched_required), Len(required_keywords))
            ELSE Rat(100, 1)
        nice_pct ==
            IF nice_to_have_keywords # <<>>
            THEN Percent(Len(matched_nice_to_have), Len(nice_to_have_keywords))
            ELSE Rat(100, 1)
        weighted_score ==
            IF required_keywords # <<>> /\ nice_to_have_keywords # <<>>
            THEN RatAdd(RatMul(required_pct, Rat(7, 10)), RatMul(nice_pct, Rat(3, 10)))
            ELSE IF required_keywords # <<>> THEN required_pct
            ELSE nice_pct
        missing_required ==
            SelectSeq(required_keywords, LAMBDA k : ~InList(k, resume_kw_lower))
        missing_important_nice ==
            SelectSeq(nice_to_have_keywords,
                      LAMBDA k : /\ ~InList(k, resume_kw_lower)
                                 /\ RatGE(Get(jd_importance, k, Rat(0, 1)), Rat(1, 2)))
    IN [score |-> Round(weighted_score, 100, tie),
        matched_required |-> Round(required_pct, 100, tie),
        matched_nice_to_have |-> Round(nice_pct, 100, tie),
        matched_keywords |-> matched_required \o matched_nice_to_have,
        missing_keywords |-> missing_required \o Take(missing_important_nice, 5)]

\* the date patterns and the texts of the vocabulary they match
MonthAbbreviations == {"Jan", "May"}
MonthNames == {"January", "May"}
Years == {"2020"}
YearMonths == {"2020-01"}
MonthYears == {"01/2020"}

\* the words of ws that are not white space
NonSpace(ws) == SelectSeq(ws, LAMBDA w : ~IsSpace(w))

\* a month of the set, white space, four digits and a word boundary
MonthThenYear(ws, months) ==
    \E n \in DOMAIN NonSpace(ws) :
        /\ n < Len(NonSpace(ws))
        /\ NonSpace(ws)[n] \in months
        /\ NonSpace(ws)[n + 1] \in Years \cup YearMonths

\* the patterns re.findall finds a match of
DateFormatsFound(ws) ==
    {p \in {"YYYY-MM"} : \E n \in DOMAIN ws : ws[n] \in YearMonths}
    \cup {p \in {"Mon YYYY"} : MonthThenYear(ws, MonthAbbreviations)}
    \cup {p \in {"Month YYYY"} : MonthThenYear(ws, MonthNames)}
    \cup {p \in {"MM/YYYY"} : \E n \in DOMAIN ws : ws[n] \in MonthYears}

check_date_format_consistency(resume_text) ==
    Cardinality(DateFormatsFound(Words(resume_text))) <= 1

\* max(0.0, min(100.0, score))
Clamp(score) == IF score < 0 THEN 0 ELSE IF score > 100 THEN 100 ELSE score

\* re.search over the bullet patterns, re.MULTILINE: a line whose first
\* character after white space is a bullet, a dash or a star
StartsWithBullet(line) ==
    NonSpace(line) # <<>> /\ Head(NonSpace(line)) \in {"*", "-"}

\* re.search(r"\|.*\|.*\|", ...): three bars in one line
HasTable(line) == Count("|", line) >= 3

calculate_formatting_score(resume_text, seed, tie) ==
    LET text_upper == UpperWords(Words(resume_text))
        found_sections ==
            SelectSeq(SectionOrder(seed),
                      LAMBDA section : section \in STANDARD_SECTIONS
                                       /\ Contains(text_upper, section))
        has_sections == Len(found_sections) >= 3
        has_bullet_points == \E n \in DOMAIN resume_text : StartsWithBullet(resume_text[n])
        date_consistent == check_date_format_consistency(resume_text)
        has_tables == \E n \in DOMAIN resume_text : HasTable(resume_text[n])
        score == 100 - (IF has_sections THEN 0 ELSE 20)
                     - (IF has_bullet_points THEN 0 ELSE 15)
                     - (IF date_consistent THEN 0 ELSE 20)
                     - (IF has_tables THEN 15 ELSE 0)
    IN [score |-> Round(Rat(Clamp(score), 1), 100, tie),
        has_sections |-> has_sections,
        has_bullet_points |-> has_bullet_points,
        date_format_consistent |-> date_consistent,
        has_tables |-> has_tables,
        found_sections |-> found_sections]

\* the skills of the list that are in the lower-case resume, in percent
SkillsMatch(skills, resume_lower) ==
    IF skills = <<>> THEN Rat(0, 1)
    ELSE Percent(Cardinality({n \in DOMAIN skills :
                                Contains(resume_lower, LowerWords(skills[n]))}),
                 Len(skills))

calculate_skills_alignment(resume_text, analysis, tie) ==
    LET resume_lower == LowerWords(Words(resume_text))
        technical_match == SkillsMatch(analysis.technical_skills, resume_lower)
        leadership_match == SkillsMatch(analysis.leadership_skills, resume_lower)
        domain_match == SkillsMatch(analysis.domain_expertise, resume_lower)
        overall_score ==
            RatAdd(RatAdd(RatMul(technical_match, Rat(5, 10)),
                          RatMul(leadership_match, Rat(3, 10))),
                   RatMul(domain_match, Rat(2, 10)))
    IN [score |-> Round(overall_score, 100, tie),
        technical_match |-> Round(technical_match, 100, tie),
        leadership_match |-> Round(leadership_match, 100, tie),
        domain_match |-> Round(domain_match, 100, tie)]

\* the e-mail addresses of the vocabulary, in upper case
EmailAddresses == {"JANE@EXAMPLE.COM"}

\* str.find(word): the place of the first word holding it, -1 without one
Find(ws, word) ==
    IF \E n \in DOMAIN ws : SubstrOf(word, ws[n])
    THEN CHOOSE n \in DOMAIN ws :
           SubstrOf(word, ws[n]) /\ \A k \in 1..(n - 1) : ~SubstrOf(word, ws[k])
    ELSE -1

calculate_section_structure_score(resume_text, tie) ==
    LET text_upper == UpperWords(Words(resume_text))
        has_contact == \E n \in DOMAIN text_upper : text_upper[n] \in EmailAddresses
        has_experience ==
            \E section \in {<<"EXPERIENCE">>, <<"WORK", "EXPERIENCE">>, <<"EMPLOYMENT">>} :
                Contains(text_upper, section)
        has_education == Contains(text_upper, <<"EDUCATION">>)
        has_skills ==
            \E section \in {<<"SKILLS">>, <<"TECHNICAL", "SKILLS">>} :
                Contains(text_upper, section)
        exp_pos == Find(text_upper, "EXPERIENCE")
        skills_pos == Find(text_upper, "SKILLS")
        logical_order ==
            ~(has_experience /\ has_skills /\ skills_pos < exp_pos /\ skills_pos # -1)
        score == 100 - (IF has_contact THEN 0 ELSE 20)
                     - (IF has_experience THEN 0 ELSE 30)
                     - (IF has_education THEN 0 ELSE 20)
                     - (IF has_skills THEN 0 ELSE 20)
                     - (IF logical_order THEN 0 ELSE 10)
    IN [score |-> Round(Rat(Clamp(score), 1), 100, tie),
        has_contact_info |-> has_contact,
        has_experience |-> has_experience,
        has_education |-> has_education,
        has_skills |-> has_skills,
        logical_order |-> logical_order]

\* the overall score with other weights
calculate_overall_score_EqualWeights(breakdown, tie) ==
    Round(Rat(25 * breakdown.keyword_match + 25 * breakdown.formatting
                + 25 * breakdown.skills_alignment + 25 * breakdown.section_structure,
              10000),
          100, tie)

\* breakdown holds hundredths: the weights are 0.5, 0.2, 0.2 and 0.1
calculate_overall_score(breakdown, tie) ==
    Round(Rat(5 * breakdown.keyword_match + 2 * breakdown.formatting
                + 2 * breakdown.skills_alignment + 1 * breakdown.section_structure,
              1000),
          100, tie)

\* sort(key=lambda x: (x[1], x[2]), reverse=True): stable, largest key first
RECURSIVE InsertByImportance(_, _)
InsertByImportance(sorted, x) ==
    IF sorted = <<>> THEN <<x>>
    ELSE IF \/ RatLT(x.importance, Head(sorted).importance)
            \/ /\ RatGE(x.importance, Head(sorted).importance)
               /\ RatGE(Head(sorted).importance, x.importance)
               /\ Head(sorted).freq >= x.freq
         THEN <<Head(sorted)>> \o InsertByImportance(Tail(sorted), x)
         ELSE <<x>> \o sorted

RECURSIVE SortedByImportance(_)
SortedByImportance(items) ==
    IF items = <<>> THEN <<>>
    ELSE InsertByImportance(SortedByImportance(SubSeq(items, 1, Len(items) - 1)),
                            items[Len(items)])

\* sort(key=lambda r: r.impact, reverse=True): stable, largest impact first
RECURSIVE InsertByImpact(_, _)
InsertByImpact(sorted, r) ==
    IF sorted = <<>> THEN <<r>>
    ELSE IF Head(sorted).impact >= r.impact
         THEN <<Head(sorted)>> \o InsertByImpact(Tail(sorted), r)
         ELSE <<r>> \o sorted

RECURSIVE SortedByImpact(_)
SortedByImpact(recs) ==
    IF recs = <<>> THEN <<>>
    ELSE InsertByImpact(SortedByImpact(SubSeq(recs, 1, Len(recs) - 1)), recs[Len(recs)])

\* impact holds tenths; the description is its text without the numbers
Recommendation(description, impact, category) ==
    [description |-> description, impact |-> impact, category |-> category]

\* f"{freq}"
FormatCount(freq) ==
    CASE freq = 0 -> "0" [] freq = 1 -> "1" [] freq = 2 -> "2" [] freq = 3 -> "3"
      [] freq = 4 -> "4" [] OTHER -> "many"

\* the description is "Add '{kw}' keyword (appears {freq}x in JD, 0x in resume)"
KeywordRecommendations(analysis, resume_keywords, tie) ==
    LET resume_kw_lower == LowerWords(resume_keywords)
        missing_keywords ==
            SelectSeq(analysis.ats_keywords, LAMBDA k : ~InList(Lower(k), resume_kw_lower))
        missing_with_scores ==
            [n \in DOMAIN missing_keywords |->
               [kw |-> missing_keywords[n],
                importance |-> Get(analysis.keyword_importance, missing_keywords[n],
                                   Rat(0, 1)),
                freq |-> Get(analysis.keyword_frequency, missing_keywords[n], 0)]]
        top == Take(SortedByImportance(missing_with_scores), 3)
    IN [n \in DOMAIN top |->
          Recommendation(<<"Add keyword", top[n].kw, "appears", FormatCount(top[n].freq)>>,
                         Round(RatMin(RatMul(top[n].importance, Rat(20, 1)), Rat(15, 1)),
                               10, tie),
                         "keyword")]

FormattingRecommendations(resume_text, seed, tie) ==
    LET format_details == calculate_formatting_score(resume_text, seed, tie)
    IN (IF ~format_details.date_format_consistent
        THEN <<Recommendation(<<"Standardize date format">>, 50, "formatting")>>
        ELSE <<>>)
       \o (IF ~format_details.has_bullet_points
           THEN <<Recommendation(<<"Use bullet points">>, 40, "formatting")>> ELSE <<>>)
       \o (IF format_details.has_tables
           THEN <<Recommendation(<<"Remove tables">>, 60, "formatting")>> ELSE <<>>)
       \o (IF ~format_details.has_sections
           THEN <<Recommendation(<<"Add clear section headers">>, 80, "formatting")>>
           ELSE <<>>)

SkillsRecommendations(resume_text, analysis, tie) ==
    LET skills_details == calculate_skills_alignment(resume_text, analysis, tie)
        resume_lower == LowerWords(Words(resume_text))
        missing_tech ==
            SelectSeq(analysis.technical_skills,
                      LAMBDA skill : ~Contains(resume_lower, LowerWords(skill)))
    IN (IF skills_details.technical_match < 7000 /\ missing_tech # <<>>
        THEN <<Recommendation(<<"Add technical skills">>, 100, "skills")>>
        ELSE <<>>)
       \o (IF skills_details.leadership_match < 6000
           THEN <<Recommendation(<<"Add leadership examples">>, 60, "skills")>>
           ELSE <<>>)

StructureRecommendations(resume_text, tie) ==
    LET structure_details == calculate_section_structure_score(resume_text, tie)
    IN (IF ~structure_details.has_contact_info
        THEN <<Recommendation(<<"Add contact information">>, 80, "structure")>> ELSE <<>>)
       \o (IF ~structure_details.has_experience
           THEN <<Recommendation(<<"Add EXPERIENCE section">>, 150, "structure")>>
           ELSE <<>>)
       \o (IF ~structure_details.has_education
           THEN <<Recommendation(<<"Add EDUCATION section">>, 70, "structure")>>
           ELSE <<>>)

\* the scores are hundredths
generate_recommendations(resume_text, analysis, keyword_match_score, formatting_score, skills_alignment_score, resume_keywords, seed, tie) ==
    LET recommendations ==
            (IF keyword_match_score < 8000
             THEN KeywordRecommendations(analysis, resume_keywords, tie) ELSE <<>>)
            \o (IF formatting_score < 8000
                THEN FormattingRecommendations(resume_text, seed, tie) ELSE <<>>)
            \o (IF skills_alignment_score < 7500
                THEN SkillsRecommendations(resume_text, analysis, tie) ELSE <<>>)
            \o StructureRecommendations(resume_text, tie)
    IN Take(SortedByImpact(recommendations), 10)

\* what score_resume has raised or returned
NoScore == [kind |-> "none"]
ScoreRaised(error, message) == [kind |-> "raised", error |-> error, message |-> message]
ScoreReturned(score) == [kind |-> "returned", score |-> score]
OverallReturned(overall_score) == [kind |-> "overall", overall_score |-> overall_score]

\* not text or not text.strip(), without the second test
Rejected_NoStrip(text) == text = <<>>

\* not text or not text.strip()
Rejected(text) == text = <<>> \/ StripWords(Words(text)) = <<>>

\* Field(..., ge=0.0, le=100.0) on a value in hundredths
ValidScore(value) == 0 <= value /\ value <= 10000

\* the field constraints of ats_scorer.models on an ATSScore
ValidATSScore(score) ==
    /\ ValidScore(score.overall_score)
    /\ \A f \in DOMAIN score.breakdown : ValidScore(score.breakdown[f])
    /\ \A n \in DOMAIN score.recommendations :
         /\ 0 <= score.recommendations[n].impact
         /\ score.recommendations[n].impact <= 1000
         /\ score.recommendations[n].description # <<>>
         /\ score.recommendations[n].category
              \in {"keyword", "formatting", "skills", "structure"}
    /\ \A f \in {"score", "matched_required", "matched_nice_to_have"} :
         ValidScore(score.keyword_details[f])
    /\ ValidScore(score.formatting_details.score)
    /\ \A f \in DOMAIN score.skills_details : ValidScore(score.skills_details[f])
    /\ ValidScore(score.structure_details.score)

\* score_resume after its validation of the inputs
ScoreOf(resume_text, job_description, seed, tie) ==
    LET analysis == analyze_job_description(job_description, seed)
        resume_keywords == extract_keywords_from_resume(resume_text, seed)
        keyword_match == calculate_keyword_match(resume_keywords, analysis.ats_keywords,
                                                 analysis.keyword_importance, tie)
        formatting == calculate_formatting_score(resume_text, seed, tie)
        skills_alignment == calculate_skills_alignment(resume_text, analysis, tie)
        section_structure == calculate_section_structure_score(resume_text, tie)
        breakdown == [keyword_match |-> keyword_match.score,
                      formatting |-> formatting.score,
                      skills_alignment |-> skills_alignment.score,
                      section_structure |-> section_structure.score]
        score == [overall_score |-> calculate_overall_score(breakdown, tie),
                  breakdown |-> breakdown,
                  recommendations |->
                      generate_recommendations(resume_text, analysis, keyword_match.score,
                                               formatting.score, skills_alignment.score,
                                               resume_keywords, seed, tie),
                  keyword_details |-> keyword_match,
                  formatting_details |-> formatting,
                  skills_details |-> skills_alignment,
                  structure_details |-> section_structure]
    IN IF ValidATSScore(score) THEN ScoreReturned(score)
       ELSE ScoreRaised("ValidationError", "")

\* the lines resumes and job descriptions are made of
ResumeLines ==
    { <<" ">>,
      <<"WORK", "EXPERIENCE", "jane@example.com">>,
      <<"*", "TECHNICAL", "SKILLS", "Python", "leadership">>,
      <<"EDUCATION", "2020-01">>,
      <<"|", "Java", "|", "Jan", "2020", "|">> }

JdLines ==
    { <<" ">>,
      <<"Required", "Python", "Java", "Docker">>,
      <<"Python", "leadership", "security">> }

\* the scores, in hundredths, that breakdowns are made of
BreakdownScores == {0, 1, 5333, 6667, 10000}

ScoreBreakdowns ==
    [keyword_match : BreakdownScores, formatting : BreakdownScores,
     skills_alignment : BreakdownScores, section_structure : BreakdownScores]

\* score_resume(resume_text, job_description) is called
ScoreResumeCalled ==
    /\ ats_resume_text \in TextsOver(ResumeLines, MaxResumeLines)
    /\ ats_job_description \in TextsOver(JdLines, MaxJdLines)
    /\ ats_breakdown = NoBreakdown
    /\ ats_pc = "called"

\* calculate_overall_score(breakdown) is called
OverallScoreCalled ==
    /\ ats_resume_text = <<>>
    /\ ats_job_description = <<>>
    /\ ats_breakdown \in ScoreBreakdowns
    /\ ats_pc = "overall_called"

AtsInit ==
    /\ ScoreResumeCalled \/ OverallScoreCalled
    /\ ats_result = NoScore
    /\ OptIdle
    /\ ClientConstructed
    /\ NoDatabase
    /\ MoreIdle

\* if not resume_text or not resume_text.strip(): raise ...
score_resume_validate_resume ==
    /\ ats_pc = "called"
    /\ IF Rejected(ats_resume_text)
       THEN /\ ats_result' = ScoreRaised("ATSScorerError", "Resume text cannot be empty")
            /\ ats_pc' = "raised"
       ELSE /\ ats_pc' = "resume_valid"
            /\ UNCHANGED ats_result
    /\ UNCHANGED <<ats_resume_text, ats_job_description, ats_breakdown, opt_vars, db_vars, more_vars>>

\* if not job_description or not job_description.strip(): raise ...
score_resume_validate_job_description ==
    /\ ats_pc = "resume_valid"
    /\ IF Rejected(ats_job_description)
       THEN /\ ats_result' = ScoreRaised("ATSScorerError",
                                         "Job description cannot be empty")
            /\ ats_pc' = "raised"
       ELSE /\ ats_pc' = "inputs_valid"
            /\ UNCHANGED ats_result
    /\ UNCHANGED <<ats_resume_text, ats_job_description, ats_breakdown, opt_vars, db_vars, more_vars>>

\* the analysis of the job description, the scores and the ATSScore
score_resume_score ==
    /\ ats_pc = "inputs_valid"
    /\ \E seed \in HashSeeds, tie \in FloatTies :
         ats_result' = ScoreOf(ats_resume_text, ats_job_description, seed, tie)
    /\ ats_pc' = "done"
    /\ UNCHANGED <<ats_resume_text, ats_job_description, ats_breakdown, opt_vars, db_vars, more_vars>>

\* calculate_overall_score(breakdown) returns
overall_score_returns ==
    /\ ats_pc = "overall_called"
    /\ \E tie \in FloatTies :
         ats_result' = OverallReturned(calculate_overall_score(ats_breakdown, tie))
    /\ ats_pc' = "overall_done"
    /\ UNCHANGED <<ats_resume_text, ats_job_description, ats_breakdown, opt_vars, db_vars, more_vars>>

AtsNext ==
    \/ score_resume_validate_resume
    \/ score_resume_validate_job_description
    \/ score_resume_score
    \/ overall_score_returns

SpecAts == AtsInit /\ [][AtsNext]_vars

(* C8: score_resume raises ATSScorerError and returns no score when
   resume_text is empty or only white space and when job_description is
   empty or only white space; the resume is checked first, so with both
   blank the error is the resume's, and the error is raised before the
   analysis of the job description is run. *)
C8_BlankInputsRaiseATSScorerError ==
    LET Blank(text) == \A n \in DOMAIN Words(text) : IsSpace(Words(text)[n])
    IN
    /\ ats_pc \in {"resume_valid", "inputs_valid", "done"} => ~Blank(ats_resume_text)
    /\ ats_pc \in {"inputs_valid", "done"} => ~Blank(ats_job_description)
    /\ ats_pc = "raised" =>
         /\ ats_result.kind = "raised"
         /\ ats_result.error = "ATSScorerError"
         /\ Blank(ats_resume_text) => ats_result.message = "Resume text cannot be empty"
    /\ Blank(ats_resume_text) \/ Blank(ats_job_description) =>
         ats_result.kind \notin {"returned"}

C8_Witness ==
    /\ ats_pc = "raised"
    /\ ats_resume_text = << <<" ">> >>
    /\ ats_job_description = <<>>
    /\ ats_result = ScoreRaised("ATSScorerError", "Resume text cannot be empty")

(* C9: the overall score is 0.5 keyword_match + 0.2 formatting
   + 0.2 skills_alignment + 0.1 section_structure rounded to two decimals,
   both as the value calculate_overall_score returns for a breakdown and as
   the overall_score of the ATSScore score_resume returns, taken over that
   score's own breakdown.  Scores are in hundredths, so ten times the
   rounded score is within 5 of 5K + 2F + 2S + C. *)
C9_OverallIsWeightedCombination ==
    LET IsWeightedScore(overall_score, breakdown) ==
            10 * overall_score
              - (5 * breakdown.keyword_match + 2 * breakdown.formatting
                   + 2 * breakdown.skills_alignment + breakdown.section_structure)
                \in -5..5
    IN
    /\ ats_pc = "overall_done" =>
         IsWeightedScore(ats_result.overall_score, ats_breakdown)
    /\ ats_pc = "done" /\ ats_result.kind = "returned" =>
         IsWeightedScore(ats_result.score.overall_score, ats_result.score.breakdown)

C9_Witness ==
    /\ ats_pc = "done"
    /\ ats_result.kind = "returned"
    /\ ats_result.score.breakdown.keyword_match = 5333
    /\ ats_result.score.breakdown.formatting = 10000
    /\ ats_result.score.breakdown.skills_alignment = 2500
    /\ ats_result.score.breakdown.section_structure = 8000
    /\ ats_result.score.overall_score = 5966

(* C10: for a resume and a job description that are not blank score_resume
   returns an ATSScore, no validation error, and in it the overall score,
   the four scores of the breakdown, every percentage of the details and
   every impact of a recommendation is between 0 and 100. *)
C10_ScoresWithinRange ==
    LET InRange(value, hundred) == 0 <= value /\ value <= hundred
    IN
    ats_pc = "done" =>
        /\ ats_result.kind = "returned"
        /\ LET score == ats_result.score
           IN /\ InRange(score.overall_score, 10000)
              /\ \A f \in DOMAIN score.breakdown : InRange(score.breakdown[f], 10000)
              /\ \A f \in {"score", "matched_required", "matched_nice_to_have"} :
                   InRange(score.keyword_details[f], 10000)
              /\ InRange(score.formatting_details.score, 10000)
              /\ \A f \in DOMAIN score.skills_details :
                   InRange(score.skills_details[f], 10000)
              /\ InRange(score.structure_details.score, 10000)
              /\ \A n \in DOMAIN score.recommendations :
                   InRange(score.recommendations[n].impact, 1000)

C10_Witness ==
    /\ ats_pc = "done"
    /\ ats_result.kind = "returned"
    /\ ats_result.score.skills_details.technical_match = 10000
    /\ ats_result.score.skills_details.domain_match = 0
    /\ ats_result.score.breakdown.section_structure = 3000
    /\ \E n \in DOMAIN ats_result.score.recommendations :
         ats_result.score.recommendations[n].impact = 150

(* C24: in the result of score_resume every keyword recommendation names a
   keyword of the job description that the resume lacks, its description
   gives the number of times the keyword occurs in the job description, and
   its impact is min(20 x the keyword's importance, 15), in tenths; there
   are at most three keyword recommendations and no missing keyword left
   out is more important than one that is recommended. *)
C24_KeywordRecommendations ==
    (ats_pc = "done" /\ ats_result.kind = "returned") =>
        LET jd_words == Words(ats_job_description)
            recs == ats_result.score.recommendations
            keyword_recs == {n \in DOMAIN recs : recs[n].category = "keyword"}
            Named(n) == recs[n].description[2]
            Occurrences(kw) ==
                Cardinality({w \in DOMAIN jd_words : Lower(jd_words[w]) = Lower(kw)})
            Importance(kw) ==
                Get(calculate_keyword_importance(ats_job_description), Lower(kw),
                    Rat(0, 1))
            JdKeywords ==
                LET kws == extract_keywords(ats_job_description, "a")
                IN {kws[k] : k \in DOMAIN kws}
            ResumeKeywords ==
                LET kws == extract_keywords(ats_resume_text, "a")
                IN {Lower(kws[k]) : k \in DOMAIN kws}
            Missing == {kw \in JdKeywords : Lower(kw) \notin ResumeKeywords}
        IN /\ Cardinality(keyword_recs) <= 3
           /\ \A n \in keyword_recs :
                /\ Named(n) \in Missing
                /\ recs[n].description[4] = FormatCount(Occurrences(Named(n)))
                /\ \E tie \in FloatTies :
                     recs[n].impact =
                         Round(RatMin(RatMul(Rat(20, 1), Importance(Named(n))),
                                      Rat(15, 1)), 10, tie)
           /\ Len(recs) < 10 =>
                \A n \in keyword_recs :
                    \A kw \in Missing \ {Named(k) : k \in keyword_recs} :
                        RatGE(Importance(Named(n)), Importance(kw))

---------------------------------------------------------------------------
(* pdf_parser.parser: ResumeParser.parse_pdf

   The file system and pdfplumber are given by what they answer: whether
   pdf_path exists, whether pdfplumber.open returns or raises, and for each
   page whether extract_text returns a text, an empty text or None, or
   raises.  Closing the file on leaving the with block and parse_text are
   taken to return. *)

PageOutcomes == {"text", "empty", "None", "raises"}

PdfFiles ==
    [exists : BOOLEAN, opens : {"ok", "raises"},
     pages : UNION {[1..n -> PageOutcomes] : n \in 0..MaxPages}]

PdfResult(kind, error, message, cause) ==
    [kind |-> kind, error |-> error, message |-> message, cause |-> cause]

PdfNoResult == PdfResult("none", "", "", "")

\* except Exception as e: raise PDFParseError(f"Failed to parse PDF: {e}") from e,
\* without the clause that re-raises a PDFParseError
Handled_AlwaysWrapped(error, message) ==
    PdfResult("raised", "PDFParseError", "Failed to parse PDF", error)

\* except PDFParseError: raise
\* except Exception as e: raise PDFParseError(f"Failed to parse PDF: {e}") from e
Handled(error, message) ==
    IF error = "PDFParseError"
    THEN PdfResult("raised", "PDFParseError", message, "")
    ELSE PdfResult("raised", "PDFParseError", "Failed to parse PDF", error)

\* parse_pdf(pdf_path) is called
PdfInit ==
    /\ pdf_file \in PdfFiles
    /\ pdf_pc = "called"
    /\ page_index = 0
    /\ text_parts = <<>>
    /\ pdf_result = PdfNoResult
    /\ CallIdle
    /\ OptIdle
    /\ ClientConstructed
    /\ NoDatabase
    /\ AtsIdle

\* if not pdf_path.exists(): raise PDFParseError(f"PDF file not found: {pdf_path}")
parse_pdf_exists ==
    /\ pdf_pc = "called"
    /\ IF ~pdf_file.exists
       THEN /\ pdf_result' = PdfResult("raised", "PDFParseError", "PDF file not found", "")
            /\ pdf_pc' = "raised"
       ELSE /\ pdf_pc' = "open"
            /\ UNCHANGED pdf_result
    /\ UNCHANGED <<pdf_file, page_index, text_parts>>
    /\ UNCHANGED <<opt_vars, db_vars, ats_vars, call_vars>>

\* with pdfplumber.open(pdf_path) as pdf:
parse_pdf_open ==
    /\ pdf_pc = "open"
    /\ IF pdf_file.opens = "raises"
       THEN /\ pdf_result' = Handled("Exception", "")
            /\ pdf_pc' = "raised"
            /\ UNCHANGED page_index
       ELSE /\ pdf_pc' = "pages"
            /\ page_index' = 1
            /\ UNCHANGED pdf_result
    /\ UNCHANGED <<pdf_file, text_parts>>
    /\ UNCHANGED <<opt_vars, db_vars, ats_vars, call_vars>>

\* for page in pdf.pages: page_text = page.extract_text()
\*     if page_text: text_parts.append(page_text)
parse_pdf_page ==
    /\ pdf_pc = "pages"
    /\ page_index <= Len(pdf_file.pages)
    /\ LET page_text == pdf_file.pages[page_index]
       IN IF page_text = "raises"
          THEN /\ pdf_result' = Handled("Exception", "")
               /\ pdf_pc' = "raised"
               /\ UNCHANGED <<page_index, text_parts>>
          ELSE /\ text_parts' = IF page_text = "text"
                                THEN Append(text_parts, page_index)
                                ELSE text_parts
               /\ page_index' = page_index + 1
               /\ UNCHANGED <<pdf_pc, pdf_result>>
    /\ UNCHANGED pdf_file
    /\ UNCHANGED <<opt_vars, db_vars, ats_vars, call_vars>>

\* if not text_parts: raise PDFParseError("No text content found in PDF")
\* return self.parse_text("\n\n".join(text_parts))
parse_pdf_parse ==
    /\ pdf_pc = "pages"
    /\ page_index > Len(pdf_file.pages)
    /\ IF text_parts = <<>>
       THEN /\ pdf_result' = Handled("PDFParseError", "No text content found in PDF")
            /\ pdf_pc' = "raised"
       ELSE /\ pdf_result' = PdfResult("returned", "", "", "")
            /\ pdf_pc' = "returned"
    /\ UNCHANGED <<pdf_file, page_index, text_parts>>
    /\ UNCHANGED <<opt_vars, db_vars, ats_vars, call_vars>>

PdfNext ==
    \/ parse_pdf_exists
    \/ parse_pdf_open
    \/ parse_pdf_page
    \/ parse_pdf_parse

SpecPdf == PdfInit /\ [][PdfNext]_vars

(* C11: parse_pdf raises nothing but PDFParseError: with the message
   'PDF file not found' when the path does not exist, with the message
   'No text content found in PDF', not wrapped, when the file opens and no
   page yields text, and with 'Failed to parse PDF' wrapping the exception
   when opening the file or extracting a page raises. *)
C11_ParsePdfRaisesOnlyPDFParseError ==
    LET pages == pdf_file.pages
        fails == pdf_file.opens = "raises" \/ \E n \in DOMAIN pages : pages[n] = "raises"
        has_text == \E n \in DOMAIN pages : pages[n] = "text"
    IN /\ pdf_pc = "raised" =>
            /\ pdf_result.kind = "raised"
            /\ pdf_result.error = "PDFParseError"
            /\ ~pdf_file.exists =>
                 pdf_result.message = "PDF file not found" /\ pdf_result.cause = ""
            /\ pdf_file.exists /\ ~fails =>
                 /\ ~has_text
                 /\ pdf_result.message = "No text content found in PDF"
                 /\ pdf_result.cause = ""
            /\ pdf_file.exists /\ fails =>
                 /\ pdf_result.message = "Failed to parse PDF"
                 /\ pdf_result.cause = "Exception"
       /\ pdf_pc = "returned" =>
            pdf_file.exists /\ ~fails /\ has_text /\ pdf_result.kind = "returned"
       /\ pdf_result.kind = "raised" => pdf_pc = "raised"

C11_Witness ==
    /\ pdf_pc = "raised"
    /\ pdf_file.exists
    /\ pdf_file.pages = <<"None", "empty">>
    /\ pdf_result = PdfResult("raised", "PDFParseError", "No text content found in PDF", "")

---------------------------------------------------------------------------
(* dashboard_generator.generator

   An application is a dict with a "company" key and, unless the key is
   missing, a "status" key.  Percentages and means are exact rationals. *)

RatEq(a, b) == a.n * b.d = b.n * a.d

\* the keys of status_counts
FunnelStatuses ==
    <<"applied", "screening", "interviewing", "offer", "rejected", "withdrawn", "accepted">>

\* the statuses an application dict may carry: the seven and one that
\* status_counts does not have
DictStatuses ==
    {"applied", "screening", "interviewing", "offer", "rejected", "withdrawn",
     "accepted", "ghosted"}

ApplicationDicts ==
    {[company |-> "Acme"]} \cup {[company |-> "Acme", status |-> s] : s \in DictStatuses}

\* app.get("status", default), the default ignored
GetStatus_NoDefault(app, default) ==
    IF "status" \in DOMAIN app THEN app.status ELSE "None"

\* app.get("status", default)
GetStatus(app, default) ==
    IF "status" \in DOMAIN app THEN app.status ELSE default

\* for app in applications: status = app.get("status", "applied")
\*     if status in status_counts: status_counts[status] += 1
RECURSIVE CountStatus(_, _)
CountStatus(apps, status) ==
    IF apps = <<>> THEN 0
    ELSE (IF GetStatus(Head(apps), "applied") = status THEN 1 ELSE 0)
         + CountStatus(Tail(apps), status)

calculate_pipeline_funnel(apps) ==
    IF apps = <<>>
    THEN [total |-> 0,
          counts |-> [n \in DOMAIN FunnelStatuses |-> 0],
          pcts |-> [n \in DOMAIN FunnelStatuses |-> Rat(0, 1)],
          response_rate |-> Rat(0, 1)]
    ELSE LET total == Len(apps)
             status_counts ==
                 [n \in DOMAIN FunnelStatuses |-> CountStatus(apps, FunnelStatuses[n])]
             responded == total - status_counts[1]
         IN [total |-> total,
             counts |-> status_counts,
             pcts |-> [n \in DOMAIN FunnelStatuses |-> Rat(status_counts[n] * 100, total)],
             response_rate |-> IF total > 0 THEN Rat(responded * 100, total)
                               ELSE Rat(0, 1)]

\* calculate_pipeline_funnel(applications) is called
FunnelInit ==
    /\ call_fn = "calculate_pipeline_funnel"
    /\ call_args \in TextsOver(ApplicationDicts, MaxApps)
    /\ call_pc = "called"
    /\ call_result = <<>>
    /\ PdfIdle
    /\ OptIdle
    /\ ClientConstructed
    /\ NoDatabase
    /\ AtsIdle

pipeline_funnel_returns ==
    /\ call_fn = "calculate_pipeline_funnel"
    /\ call_pc = "called"
    /\ call_result' = calculate_pipeline_funnel(call_args)
    /\ call_pc' = "returned"
    /\ UNCHANGED <<call_fn, call_args>>
    /\ UNCHANGED <<opt_vars, db_vars, ats_vars, pdf_vars>>

SpecFunnel == FunnelInit /\ [][pipeline_funnel_returns]_vars

(* C12: calculate_pipeline_funnel reports total = the number of
   applications; for each of the seven statuses, count = the number of
   applications with that status, an application without a status counting
   as 'applied', and pct = count / total x 100; response_rate =
   (total - applied) / total x 100; for the empty list every value is 0. *)
C12_FunnelCountsAndPercentages ==
    call_pc = "returned" =>
        LET apps == call_args
            funnel == call_result
            With(status) ==
                {n \in DOMAIN apps :
                    \/ "status" \in DOMAIN apps[n] /\ apps[n].status = status
                    \/ "status" \notin DOMAIN apps[n] /\ status = "applied"}
        IN /\ funnel.total = Len(apps)
           /\ \A n \in DOMAIN FunnelStatuses :
                /\ funnel.counts[n] = Cardinality(With(FunnelStatuses[n]))
                /\ IF apps = <<>> THEN RatEq(funnel.pcts[n], Rat(0, 1))
                   ELSE RatEq(funnel.pcts[n], Rat(100 * funnel.counts[n], funnel.total))
           /\ IF apps = <<>> THEN RatEq(funnel.response_rate, Rat(0, 1))
              ELSE RatEq(funnel.response_rate,
                         Rat(100 * (funnel.total - funnel.counts[1]), funnel.total))

C12_Witness ==
    /\ call_fn = "calculate_pipeline_funnel"
    /\ call_pc = "returned"
    /\ call_args = <<[company |-> "Acme"], [company |-> "Acme", status |-> "offer"],
                     [company |-> "Acme", status |-> "ghosted"]>>
    /\ call_result.counts[1] = 1
    /\ call_result.response_rate = Rat(200, 3)

\* sum(1 for app in applications if app.get("status") in statuses), or
\* "not in" when member is FALSE
RECURSIVE CountWhere(_, _, _)
CountWhere(apps, statuses, member) ==
    IF apps = <<>> THEN 0
    ELSE (IF (GetStatus(Head(apps), "None") \in statuses) = member THEN 1 ELSE 0)
         + CountWhere(Tail(apps), statuses, member)

\* the three rates; the benchmarks and the comparison with them are left out
calculate_success_metrics(apps) ==
    IF apps = <<>>
    THEN [response_rate |-> Rat(0, 1), interview_rate |-> Rat(0, 1),
          offer_rate |-> Rat(0, 1)]
    ELSE LET total == Len(apps)
             responded == CountWhere(apps, {"applied"}, FALSE)
             interviewed == CountWhere(apps, {"interviewing", "offer", "accepted"}, TRUE)
             offered == CountWhere(apps, {"offer", "accepted"}, TRUE)
         IN [response_rate |-> Rat(responded * 100, total),
             interview_rate |-> Rat(interviewed * 100, total),
             offer_rate |-> Rat(offered * 100, total)]

\* calculate_success_metrics(applications, stages) is called
SuccessInit ==
    /\ call_fn = "calculate_success_metrics"
    /\ call_args \in TextsOver(ApplicationDicts, MaxApps)
    /\ call_pc = "called"
    /\ call_result = <<>>
    /\ PdfIdle
    /\ OptIdle
    /\ ClientConstructed
    /\ NoDatabase
    /\ AtsIdle

success_metrics_returns ==
    /\ call_fn = "calculate_success_metrics"
    /\ call_pc = "called"
    /\ call_result' = calculate_success_metrics(call_args)
    /\ call_pc' = "returned"
    /\ UNCHANGED <<call_fn, call_args>>
    /\ UNCHANGED <<opt_vars, db_vars, ats_vars, pdf_vars>>

SpecSuccess == SuccessInit /\ [][success_metrics_returns]_vars

(* C13: calculate_success_metrics reports response_rate = the percentage of
   the applications that moved beyond 'applied', interview_rate = the
   percentage with status interviewing, offer or accepted, and offer_rate =
   the percentage with status offer or accepted; all three are 0 for the
   empty list.  An application has moved beyond 'applied' when it has a
   status and the status is not 'applied'. *)
C13_SuccessRates ==
    call_pc = "returned" =>
        LET apps == call_args
            With(statuses) ==
                {n \in DOMAIN apps :
                    "status" \in DOMAIN apps[n] /\ apps[n].status \in statuses}
            PercentOf(S) == IF apps = <<>> THEN Rat(0, 1)
                            ELSE Rat(100 * Cardinality(S), Len(apps))
        IN /\ RatEq(call_result.response_rate, PercentOf(With(DictStatuses \ {"applied"})))
           /\ RatEq(call_result.interview_rate,
                    PercentOf(With({"interviewing", "offer", "accepted"})))
           /\ RatEq(call_result.offer_rate, PercentOf(With({"offer", "accepted"})))

(* generate_dashboard computes the funnel and the success metrics from the
   same list of applications. *)

\* generate_dashboard(applications, stages, ...) is called
DashboardInit ==
    /\ call_fn = "generate_dashboard"
    /\ call_args \in TextsOver(ApplicationDicts, MaxApps)
    /\ call_pc = "called"
    /\ call_result = <<>>
    /\ PdfIdle
    /\ OptIdle
    /\ ClientConstructed
    /\ NoDatabase
    /\ AtsIdle

\* funnel = calculate_pipeline_funnel(applications)
\* metrics = calculate_success_metrics(applications, stages)
dashboard_metrics_returns ==
    /\ call_fn = "generate_dashboard"
    /\ call_pc = "called"
    /\ call_result' = [funnel |-> calculate_pipeline_funnel(call_args),
                       metrics |-> calculate_success_metrics(call_args)]
    /\ call_pc' = "returned"
    /\ UNCHANGED <<call_fn, call_args>>
    /\ UNCHANGED <<opt_vars, db_vars, ats_vars, pdf_vars>>

SpecDashboard == DashboardInit /\ [][dashboard_metrics_returns]_vars

(* C28: for any list of applications, calculate_pipeline_funnel and
   calculate_success_metrics report the same response_rate, also when some
   application has no status or a status that is none of the seven. *)
C28_SameResponseRate ==
    call_pc = "returned" =>
        RatEq(call_result.funnel.response_rate, call_result.metrics.response_rate)

(* calculate_time_metrics: a stage_date is an instant counted in half
   days, so that two instants can lie less than a day apart; the order of
   the ISO strings is the order of the instants. *)

StageAppIds == {1, 2}
StageStatuses == {"applied", "screening", "interviewing", "offer"}
StageDates == {0, 1, 3}

StageDicts == [application_id : StageAppIds, status : StageStatuses, stage_date : StageDates]

\* sorted(app_stage_list, key=lambda s: s["stage_date"]): stable
RECURSIVE InsertByDate(_, _)
InsertByDate(sorted, stage) ==
    IF sorted = <<>> THEN <<stage>>
    ELSE IF Head(sorted).stage_date <= stage.stage_date
         THEN <<Head(sorted)>> \o InsertByDate(Tail(sorted), stage)
         ELSE <<stage>> \o sorted

RECURSIVE SortedByDate(_)
SortedByDate(stages) ==
    IF stages = <<>> THEN <<>>
    ELSE InsertByDate(SortedByDate(SubSeq(stages, 1, Len(stages) - 1)), stages[Len(stages)])

\* app_stages: the ids in the order they first occur, and the stages of an id
RECURSIVE StageIds(_)
StageIds(stages) ==
    IF stages = <<>> THEN <<>>
    ELSE LET before == StageIds(SubSeq(stages, 1, Len(stages) - 1))
             app_id == stages[Len(stages)].application_id
         IN IF \E n \in DOMAIN before : before[n] = app_id THEN before
            ELSE Append(before, app_id)

StagesOf(stages, app_id) == SelectSeq(stages, LAMBDA stage : stage.application_id = app_id)

\* the dates the loop over sorted_stages leaves: -1 stands for None
NoDate == -1

RECURSIVE StageDatesOf(_, _)
StageDatesOf(sorted_stages, dates) ==
    IF sorted_stages = <<>> THEN dates
    ELSE LET stage == Head(sorted_stages)
             status == stage.status
             date == stage.stage_date
             next ==
                 IF status = "applied" THEN [dates EXCEPT !.applied = date]
                 ELSE IF status = "screening" /\ dates.screening = NoDate
                      THEN [dates EXCEPT !.screening = date]
                 ELSE IF status = "interviewing" /\ dates.interviewing = NoDate
                      THEN [dates EXCEPT !.interviewing = date]
                 ELSE IF status = "offer" /\ dates.offer = NoDate
                      THEN [dates EXCEPT !.offer = date]
                 ELSE dates
         IN StageDatesOf(Tail(sorted_stages), next)

\* (date - applied_date).days, the instants in half days
Days(date, applied_date) == (date - applied_date) \div 2

\* the list of deltas of one stage over the applications
RECURSIVE TimesOf(_, _, _)
TimesOf(stages, ids, status) ==
    IF ids = <<>> THEN <<>>
    ELSE LET dates == StageDatesOf(SortedByDate(StagesOf(stages, Head(ids))),
                                   [applied |-> NoDate, screening |-> NoDate,
                                    interviewing |-> NoDate, offer |-> NoDate])
         IN (IF dates.applied # NoDate /\ dates[status] # NoDate
             THEN <<Days(dates[status], dates.applied)>> ELSE <<>>)
            \o TimesOf(stages, Tail(ids), status)

RECURSIVE Sum(_)
Sum(numbers) == IF numbers = <<>> THEN 0 ELSE Head(numbers) + Sum(Tail(numbers))

\* sum(times) / len(times) if times else 0.0, over all applications
Average_OverAll(times, stages) ==
    IF times = <<>> THEN Rat(0, 1) ELSE Rat(Sum(times), Len(StageIds(stages)))

\* sum(times) / len(times) if times else 0.0
Average(times, stages) == IF times = <<>> THEN Rat(0, 1) ELSE Rat(Sum(times), Len(times))

calculate_time_metrics(stages) ==
    IF stages = <<>>
    THEN [avg_response_time_days |-> Rat(0, 1), avg_time_to_interview_days |-> Rat(0, 1),
          avg_time_to_offer_days |-> Rat(0, 1)]
    ELSE LET ids == StageIds(stages)
         IN [avg_response_time_days |-> Average(TimesOf(stages, ids, "screening"), stages),
             avg_time_to_interview_days |->
                 Average(TimesOf(stages, ids, "interviewing"), stages),
             avg_time_to_offer_days |-> Average(TimesOf(stages, ids, "offer"), stages)]

\* calculate_time_metrics(applications, stages) is called
TimeInit ==
    /\ call_fn = "calculate_time_metrics"
    /\ call_args \in TextsOver(StageDicts, MaxStages)
    /\ call_pc = "called"
    /\ call_result = <<>>
    /\ PdfIdle
    /\ OptIdle
    /\ ClientConstructed
    /\ NoDatabase
    /\ AtsIdle

time_metrics_returns ==
    /\ call_fn = "calculate_time_metrics"
    /\ call_pc = "called"
    /\ call_result' = calculate_time_metrics(call_args)
    /\ call_pc' = "returned"
    /\ UNCHANGED <<call_fn, call_args>>
    /\ UNCHANGED <<opt_vars, db_vars, ats_vars, pdf_vars>>

SpecTime == TimeInit /\ [][time_metrics_returns]_vars

\* the sum of f over the set S
RECURSIVE SumOver(_, _)
SumOver(f, S) ==
    IF S = {} THEN 0
    ELSE LET x == CHOOSE y \in S : TRUE IN f[x] + SumOver(f, S \ {x})

(* C14: for each of screening, interviewing and offer calculate_time_metrics
   returns the mean, over exactly the applications whose stages hold both an
   'applied' stage and that stage, of the whole days from the applied date
   to the first occurrence of that stage, and 0 when no application has
   both.  The applied date of an application with several 'applied' stages
   is the latest of them; whole days are the days of the difference rounded
   down. *)
C14_MeanDaysFromApplied ==
    call_pc = "returned" =>
        LET stages == call_args
            DatesOf(app_id, status) ==
                {stages[n].stage_date : n \in {k \in DOMAIN stages :
                    stages[k].application_id = app_id /\ stages[k].status = status}}
            First(D) == CHOOSE d \in D : \A e \in D : d <= e
            Last(D) == CHOOSE d \in D : \A e \in D : d >= e
            Both(status) ==
                {app_id \in StageAppIds :
                    DatesOf(app_id, "applied") # {} /\ DatesOf(app_id, status) # {}}
            WholeDays(status) ==
                [app_id \in Both(status) |->
                    LET half_days == First(DatesOf(app_id, status))
                                       - Last(DatesOf(app_id, "applied"))
                    IN CHOOSE d \in -4..4 : 2 * d <= half_days /\ half_days < 2 * d + 2]
            Mean(status) ==
                IF Both(status) = {} THEN Rat(0, 1)
                ELSE Rat(SumOver(WholeDays(status), Both(status)), Cardinality(Both(status)))
        IN /\ RatEq(call_result.avg_response_time_days, Mean("screening"))
           /\ RatEq(call_result.avg_time_to_interview_days, Mean("interviewing"))
           /\ RatEq(call_result.avg_time_to_offer_days, Mean("offer"))

C14_Witness ==
    /\ call_fn = "calculate_time_metrics"
    /\ call_pc = "returned"
    /\ call_args = <<[application_id |-> 1, status |-> "screening", stage_date |-> 3],
                     [application_id |-> 2, status |-> "applied", stage_date |-> 0],
                     [application_id |-> 1, status |-> "applied", stage_date |-> 0]>>
    /\ call_result.avg_response_time_days = Rat(1, 1)
    /\ call_result.avg_time_to_offer_days = Rat(0, 1)

(* C29: when in the stage history of every application each screening,
   interviewing and offer stage is dated on or after the earliest 'applied'
   stage of that application, the three averages calculate_time_metrics
   returns are >= 0, also when an application has several 'applied'
   stages. *)
C29_AveragesNotNegative ==
    call_pc = "returned" =>
        LET stages == call_args
            AppliedDates(app_id) ==
                {stages[n].stage_date : n \in {k \in DOMAIN stages :
                    stages[k].application_id = app_id /\ stages[k].status = "applied"}}
            AfterEarliestApplied ==
                \A n \in DOMAIN stages :
                    stages[n].status \in {"screening", "interviewing", "offer"}
                        => \E applied \in AppliedDates(stages[n].application_id) :
                               applied <= stages[n].stage_date
        IN AfterEarliestApplied
               => /\ RatGE(call_result.avg_response_time_days, Rat(0, 1))
                  /\ RatGE(call_result.avg_time_to_interview_days, Rat(0, 1))
                  /\ RatGE(call_result.avg_time_to_offer_days, Rat(0, 1))

---------------------------------------------------------------------------
(* check_date_format_consistency on its own *)

\* the words the resumes of this check are made of
DateWords == {"Jan", "May", "January", "2020", "2020-01", "01/2020", "worked"}

\* check_date_format_consistency(resume_text) is called
DatesInit ==
    /\ call_fn = "check_date_format_consistency"
    /\ call_args \in {<<line>> : line \in TextsOver(DateWords, MaxDateWords)}
    /\ call_pc = "called"
    /\ call_result = <<>>
    /\ PdfIdle
    /\ OptIdle
    /\ ClientConstructed
    /\ NoDatabase
    /\ AtsIdle

date_format_consistency_returns ==
    /\ call_fn = "check_date_format_consistency"
    /\ call_pc = "called"
    /\ call_result' = check_date_format_consistency(call_args)
    /\ call_pc' = "returned"
    /\ UNCHANGED <<call_fn, call_args>>
    /\ UNCHANGED <<opt_vars, db_vars, ats_vars, pdf_vars>>

SpecDates == DatesInit /\ [][date_format_consistency_returns]_vars

(* C15: check_date_format_consistency returns True when the resume holds no
   date or all of its dates use a single format, and False when it mixes
   formats among YYYY-MM, 'Mon YYYY', 'Month YYYY' and MM/YYYY.  A date is
   a year-month or month/year word, or a month followed by a year; the dates
   use a single format when one of the four formats fits every date. *)
C15_DateFormatConsistency ==
    call_pc = "returned" =>
        LET ws == Words(call_args)
            FormatsOf(n) ==
                {f \in {"YYYY-MM"} : ws[n] = "2020-01"}
                \cup {f \in {"MM/YYYY"} : ws[n] = "01/2020"}
                \cup {f \in {"Mon YYYY"} :
                        /\ ws[n] \in {"Jan", "May"}
                        /\ n < Len(ws) /\ ws[n + 1] \in {"2020", "2020-01"}}
                \cup {f \in {"Month YYYY"} :
                        /\ ws[n] \in {"January", "May"}
                        /\ n < Len(ws) /\ ws[n + 1] \in {"2020", "2020-01"}}
            dates == {n \in DOMAIN ws : FormatsOf(n) # {}}
            single_format ==
                \E f \in {"YYYY-MM", "Mon YYYY", "Month YYYY", "MM/YYYY"} :
                    \A n \in dates : f \in FormatsOf(n)
        IN call_result = single_format

---------------------------------------------------------------------------
(* identify_keyword_gaps on its own *)

GapKeywords == {"python", "Java", "AWS"}
\* importances in tenths, below and above the threshold of 0.5
GapImportances == {3, 7, 9}

GapInputs ==
    [resume_text : TextsOver(ResumeTokens, MaxRawLen),
     jd_keywords :
        { d \in UNION { [1..k -> GapKeywords \X GapImportances] : k \in 0..MaxKeywords } :
            \A a, b \in DOMAIN d : a # b => d[a][1] # d[b][1] }]

\* identify_keyword_gaps(resume_text, jd_keywords) is called
GapsInit ==
    /\ call_fn = "identify_keyword_gaps"
    /\ call_args \in GapInputs
    /\ call_pc = "called"
    /\ call_result = <<>>
    /\ PdfIdle
    /\ OptIdle
    /\ ClientConstructed
    /\ NoDatabase
    /\ AtsIdle

keyword_gaps_returns ==
    /\ call_fn = "identify_keyword_gaps"
    /\ call_pc = "called"
    /\ call_result' = identify_keyword_gaps(call_args.resume_text, call_args.jd_keywords)
    /\ call_pc' = "returned"
    /\ UNCHANGED <<call_fn, call_args>>
    /\ UNCHANGED <<opt_vars, db_vars, ats_vars, pdf_vars>>

SpecGaps == GapsInit /\ [][keyword_gaps_returns]_vars

(* C16: for every resume text and keyword-importance map, each keyword
   identify_keyword_gaps returns does not occur in the resume text, case
   ignored, and has importance above 0.5; every such keyword of the map is
   returned; and the keywords come in non-increasing order of importance. *)
C16_GapsAreHighValueMissingKeywords ==
    call_pc = "returned" =>
        LET text == call_args.resume_text
            jd_keywords == call_args.jd_keywords
            gaps == call_result
            ImportanceOf(kw) ==
                jd_keywords[CHOOSE n \in DOMAIN jd_keywords : jd_keywords[n][1] = kw][2]
            Occurs(kw) == \E n \in DOMAIN text : SubstrOf(Lower(kw), Lower(text[n]))
            high_value_missing ==
                {jd_keywords[n][1] : n \in {k \in DOMAIN jd_keywords :
                    ~Occurs(jd_keywords[k][1]) /\ jd_keywords[k][2] > 5}}
        IN /\ {gaps[n] : n \in DOMAIN gaps} = high_value_missing
           /\ \A a, b \in DOMAIN gaps :
                a < b => gaps[a] # gaps[b] /\ ImportanceOf(gaps[a]) >= ImportanceOf(gaps[b])

---------------------------------------------------------------------------
(* generate_ats_keywords on its own *)

KeywordJdLines ==
    JdLines \cup
    { <<"docker", "python">>,
      <<"java", "leadership", "security">>,
      <<"Docker", "docker", "java">>,
      <<"python", "Python", "lead">>,
      <<"Python", "Python", "docker">>,
      <<"security", "docker", "docker">> }

\* generate_ats_keywords(text) is called
AtsKeywordsInit ==
    /\ call_fn = "generate_ats_keywords"
    /\ call_args \in TextsOver(KeywordJdLines, MaxJdLines)
    /\ call_pc = "called"
    /\ call_result = <<>>
    /\ PdfIdle
    /\ OptIdle
    /\ ClientConstructed
    /\ NoDatabase
    /\ AtsIdle

ats_keywords_returns ==
    /\ call_fn = "generate_ats_keywords"
    /\ call_pc = "called"
    /\ \E seed \in HashSeeds :
         call_result' = IF call_args = <<>> THEN <<>>
                        ELSE generate_ats_keywords(call_args, seed)
    /\ call_pc' = "returned"
    /\ UNCHANGED <<call_fn, call_args>>
    /\ UNCHANGED <<opt_vars, db_vars, ats_vars, pdf_vars>>

SpecAtsKeywords == AtsKeywordsInit /\ [][ats_keywords_returns]_vars

(* C17: generate_ats_keywords returns the keywords of the job description
   ordered by how often they occur in it, most frequent first: a keyword
   never precedes one that occurs more often in the text.  A keyword occurs
   as often as the text has words equal to it, case ignored. *)
C17_KeywordsByFrequency ==
    call_pc = "returned" =>
        LET words == Words(call_args)
            Occurrences(kw) ==
                Cardinality({n \in DOMAIN words : Lower(words[n]) = Lower(kw)})
        IN \A a, b \in DOMAIN call_result :
             a < b => Occurrences(call_result[a]) >= Occurrences(call_result[b])

---------------------------------------------------------------------------
(* company_analyzer: generate_talking_points *)

MaxNews == 1

\* str.lower() on the words of company data
LowerCompanyWord(word) ==
    CASE word = "Innovation" -> "innovation"
      [] word = "Mission"    -> "mission"
      [] word = "Raises"     -> "raises"
      [] OTHER               -> word

\* keyword in content.lower(), the content a sequence of words: the keyword
\* is a word of it or lies inside one
KeywordIn(keyword, content) ==
    \E n \in DOMAIN content :
        \/ LowerCompanyWord(content[n]) = keyword
        \/ <<keyword, LowerCompanyWord(content[n])>> \in
               { <<"customer", "customers">>, <<"product", "products">> }

CompanyKeys == {"name", "website_content", "news", "industry", "size"}

WebsiteContents ==
    { <<>>,
      <<"Innovation", "customers">>,
      <<"innovation", "customers", "diversity", "sustainability",
        "collaboration">>,
      <<"innovation", "customers", "diversity", "sustainability",
        "collaboration", "Mission">>,
      <<"purpose">> }

NewsTitles == { <<>>, <<"TechCo", "Raises", "funding">>, <<"new", "products">> }

\* a news item, with or without a title
NewsItems == [title : NewsTitles] \cup [url : {"u"}]

\* the company data dictionaries: any subset of the keys present
CompanyData ==
    { [k \in keys |-> full[k]] :
        full \in [ name : {"TechCo"},
                   website_content : WebsiteContents,
                   news : TextsOver(NewsItems, MaxNews),
                   industry : {"", "AI"},
                   size : {"", "50-100"} ],
        keys \in SUBSET CompanyKeys }

_extract_topic_from_title(title) ==
    IF title = <<>> THEN "recent developments"
    ELSE IF KeywordIn("funding", title) \/ KeywordIn("raises", title)
         THEN "funding and growth"
    ELSE IF KeywordIn("product", title) \/ KeywordIn("launch", title)
         THEN "product innovation"
    ELSE IF KeywordIn("award", title) THEN "industry recognition"
    ELSE IF KeywordIn("hiring", title) THEN "team expansion"
    ELSE "recent developments"

\* value_keywords, in the order of the dictionary
value_keywords ==
    << <<"innovation", "innovative approach to problem-solving">>,
       <<"customer", "customer-centric philosophy">>,
       <<"diversity", "commitment to diversity and inclusion">>,
       <<"sustainability", "focus on sustainability">>,
       <<"collaboration", "collaborative work environment">> >>

\* a talking point: what it is about, the company name and the details put
\* into its text
TalkingPoint(kind, name, details) ==
    [kind |-> kind, name |-> name, details |-> details]

GenericPoint(name) == TalkingPoint("generic", name, <<>>)

\* the loop over value_keywords from entry n on, with its break at 7 points
RECURSIVE ValuePoints(_, _, _, _)
ValuePoints(points, n, name, website_content) ==
    IF n > Len(value_keywords) THEN points
    ELSE IF KeywordIn(value_keywords[n][1], website_content)
         THEN LET appended == Append(points,
                       TalkingPoint("value", name, <<value_keywords[n][2]>>))
              IN IF Len(appended) >= 7 THEN appended
                 ELSE ValuePoints(appended, n + 1, name, website_content)
    ELSE ValuePoints(points, n + 1, name, website_content)

\* without the padding loop
PadPoints_Never(points, name) == points

\* while len(points) < 5: points.append(generic point)
PadPoints(points, name) ==
    IF Len(points) < 5
    THEN points \o [n \in 1..(5 - Len(points)) |-> GenericPoint(name)]
    ELSE points

generate_talking_points(data) ==
    IF DOMAIN data = {} THEN <<>>
    ELSE
    LET name == Get(data, "name", "the company")
        website_content == Get(data, "website_content", <<>>)
        news == Get(data, "news", <<>>)
        industry == Get(data, "industry", "")
        size == Get(data, "size", "")
        p1 == IF news # <<>>
              THEN <<TalkingPoint("news", name,
                        <<Get(news[1], "title", <<"recent", "developments">>),
                          _extract_topic_from_title(Get(news[1], "title", <<>>))>>)>>
              ELSE <<>>
        p2 == ValuePoints(p1, 1, name, website_content)
        p3 == IF industry # ""
              THEN Append(p2, TalkingPoint("industry", name, <<industry>>))
              ELSE p2
        p4 == IF size # ""
              THEN Append(p3, TalkingPoint("size", name, <<size>>))
              ELSE p3
        p5 == IF KeywordIn("mission", website_content)
                 \/ KeywordIn("purpose", website_content)
              THEN Append(p4, TalkingPoint("mission", name, <<>>))
              ELSE p4
    IN Take(PadPoints(p5, name), 7)

\* generate_talking_points(data) is called
TalkingInit ==
    /\ call_fn = "generate_talking_points"
    /\ call_args \in {<<data>> : data \in CompanyData}
    /\ call_pc = "called"
    /\ call_result = <<>>
    /\ PdfIdle
    /\ OptIdle
    /\ ClientConstructed
    /\ NoDatabase
    /\ AtsIdle

talking_points_returns ==
    /\ call_fn = "generate_talking_points"
    /\ call_pc = "called"
    /\ call_result' = generate_talking_points(call_args[1])
    /\ call_pc' = "returned"
    /\ UNCHANGED <<call_fn, call_args>>
    /\ UNCHANGED <<opt_vars, db_vars, ats_vars, pdf_vars>>

SpecTalking == TalkingInit /\ [][talking_points_returns]_vars

(* C18: for every non-empty company data dictionary generate_talking_points
   returns at least 5 and at most 7 talking points; when the data gives
   fewer than 5 specific points (one for the latest news, one per company
   value found on the website, one each for the industry, the size and the
   mission), generic points fill the list up to 5, after the specific
   ones. *)
C18_FiveToSevenTalkingPoints ==
    (call_pc = "returned" /\ DOMAIN call_args[1] # {}) =>
        LET data == call_args[1]
            content == IF "website_content" \in DOMAIN data
                       THEN data.website_content ELSE <<>>
            Found(key) ==
                key \in DOMAIN data
                /\ data[key] # (IF key = "news" THEN <<>> ELSE "")
            specific ==
                (IF Found("news") THEN 1 ELSE 0)
                + Cardinality({n \in DOMAIN value_keywords :
                                   KeywordIn(value_keywords[n][1], content)})
                + (IF Found("industry") THEN 1 ELSE 0)
                + (IF Found("size") THEN 1 ELSE 0)
                + (IF KeywordIn("mission", content)
                      \/ KeywordIn("purpose", content) THEN 1 ELSE 0)
            generic == {n \in DOMAIN call_result :
                            call_result[n].kind = "generic"}
        IN /\ Len(call_result) >= 5
           /\ Len(call_result) <= 7
           /\ generic = (specific + 1)..5
           /\ \A n \in generic : call_result[n] = GenericPoint(call_result[n].name)

\* a company with only a name and an industry: one specific point, four
\* generic ones
C18_Witness ==
    /\ call_pc = "returned"
    /\ call_fn = "generate_talking_points"
    /\ DOMAIN call_args[1] = {"name", "industry"}
    /\ call_args[1].industry = "AI"
    /\ Len(call_result) = 5
    /\ call_result[1].kind = "industry"
    /\ call_result[5].kind = "generic"

---------------------------------------------------------------------------
(* calculate_keyword_match on its own *)

MaxResumeKeywords == 2
MaxJdKeywords == 3

MatchResumeKeywords == {"python", "Docker"}
MatchJdKeywords == {"Python", "docker", "java"}
MatchImportanceKeys == {"Python", "python", "docker", "java"}
\* 0.3 and 0.9
MatchImportances == {Rat(3, 10), Rat(9, 10)}

\* the importance maps: no two keys are the same keyword in another case
MatchImportanceMaps ==
    { d \in UNION { [keys -> MatchImportances] :
                        keys \in SUBSET MatchImportanceKeys } :
        \A a, b \in DOMAIN d : Lower(a) = Lower(b) => a = b }

\* calculate_keyword_match(resume_keywords, jd_keywords, jd_importance) is
\* called
KeywordMatchInit ==
    /\ call_fn = "calculate_keyword_match"
    /\ call_args \in TextsOver(MatchResumeKeywords, MaxResumeKeywords)
                     \X TextsOver(MatchJdKeywords, MaxJdKeywords)
                     \X MatchImportanceMaps
    /\ call_pc = "called"
    /\ call_result = <<>>
    /\ PdfIdle
    /\ OptIdle
    /\ ClientConstructed
    /\ NoDatabase
    /\ AtsIdle

keyword_match_returns ==
    /\ call_fn = "calculate_keyword_match"
    /\ call_pc = "called"
    /\ \E tie \in FloatTies :
         call_result' = calculate_keyword_match(call_args[1], call_args[2],
                                                call_args[3], tie)
    /\ call_pc' = "returned"
    /\ UNCHANGED <<call_fn, call_args>>
    /\ UNCHANGED <<opt_vars, db_vars, ats_vars, pdf_vars>>

SpecKeywordMatch == KeywordMatchInit /\ [][keyword_match_returns]_vars

(* C20: calculate_keyword_match matches keywords without regard to case.  A
   JD keyword is required when its importance in the map (0.5 when the map
   has no entry for it) is at least 0.7 and nice-to-have otherwise; with an
   empty map all are required.  The score, in hundredths, is 0.7 x (percent
   of required matched) + 0.3 x (percent of nice-to-have matched) when both
   classes are non-empty, the matched percentage of the only class
   otherwise, and 0 without JD keywords; a resume with every JD keyword
   scores 100. *)
C20_KeywordMatchScore ==
    call_pc = "returned" =>
        LET resume_keywords == call_args[1]
            jd_keywords == call_args[2]
            jd_importance == call_args[3]
            Matched(n) == \E r \in DOMAIN resume_keywords :
                              Lower(resume_keywords[r]) = Lower(jd_keywords[n])
            Entries(n) == {k \in DOMAIN jd_importance :
                               Lower(k) = Lower(jd_keywords[n])}
            Importance(n) ==
                IF Entries(n) = {} THEN Rat(1, 2)
                ELSE jd_importance[CHOOSE k \in Entries(n) : TRUE]
            required ==
                IF DOMAIN jd_importance = {} THEN DOMAIN jd_keywords
                ELSE {n \in DOMAIN jd_keywords : RatGE(Importance(n), Rat(7, 10))}
            nice == DOMAIN jd_keywords \ required
            Pct(class) ==
                Rat(100 * Cardinality({n \in class : Matched(n)}),
                    Cardinality(class))
            expected ==
                IF jd_keywords = <<>> THEN Rat(0, 1)
                ELSE IF required # {} /\ nice # {}
                     THEN RatAdd(RatMul(Rat(7, 10), Pct(required)),
                                 RatMul(Rat(3, 10), Pct(nice)))
                ELSE IF required # {} THEN Pct(required)
                ELSE Pct(nice)
        IN /\ \E tie \in FloatTies :
                call_result.score = Round(expected, 100, tie)
           /\ (jd_keywords # <<>> /\ \A n \in DOMAIN jd_keywords : Matched(n))
                  => call_result.score = 10000

---------------------------------------------------------------------------
(* jd_analyzer: categorize_requirements *)

MaxReqLines == 3

\* the lines of a job description, each a sequence of words
ReqLines ==
    { <<"Requirements:">>,
      <<"Nice", "to", "have:">>,
      <<"Responsibilities:">>,
      <<"-", "Python", "experience">>,
      <<"-", "SQL">>,
      <<"-", "must", "have", "Docker">>,
      <<"-", "familiarity", "with", "AWS">>,
      <<"We", "build", "tools">>,
      <<"Must", "have", "Python">> }

\* str.lower() on the words of these lines
LowerReq(word) ==
    CASE word = "Requirements:"     -> "requirements:"
      [] word = "Nice"              -> "nice"
      [] word = "Responsibilities:" -> "responsibilities:"
      [] word = "We"                -> "we"
      [] word = "Must"              -> "must"
      [] OTHER                      -> Lower(word)

\* len(word)
CharsOf(word) ==
    CASE word = "Python"      -> 6
      [] word = "experience"  -> 10
      [] word = "SQL"         -> 3
      [] word = "must"        -> 4
      [] word = "have"        -> 4
      [] word = "Docker"      -> 6
      [] word = "familiarity" -> 11
      [] word = "with"        -> 4
      [] word = "AWS"         -> 3
      [] OTHER                -> 1

\* len(item), the words joined by single spaces
RECURSIVE ItemLen(_)
ItemLen(item) ==
    IF item = <<>> THEN 0
    ELSE IF Len(item) = 1 THEN CharsOf(item[1])
    ELSE CharsOf(item[1]) + 1 + ItemLen(Tail(item))

\* re.match(r"^(?:required\s*skills?|requirements?|qualifications?|must have|you have)")
IsRequiredHeader(line_lower) ==
    /\ line_lower # <<>>
    /\ \/ line_lower[1] \in {"requirements:", "requirements", "requirement",
                             "qualifications:", "qualifications", "qualification"}
       \/ /\ Len(line_lower) >= 2
          /\ <<line_lower[1], line_lower[2]>> \in
                 { <<"must", "have">>, <<"must", "have:">>, <<"you", "have">>,
                   <<"you", "have:">>, <<"required", "skills">>,
                   <<"required", "skills:">> }

\* re.match(r"^(?:nice\s*to\s*have|preferred|bonus|plus|optional|desired)")
IsNiceHeader(line_lower) ==
    /\ line_lower # <<>>
    /\ \/ line_lower[1] \in {"preferred", "preferred:", "bonus", "bonus:", "plus",
                             "plus:", "optional", "optional:", "desired", "desired:"}
       \/ /\ Len(line_lower) >= 3
          /\ SubSeq(line_lower, 1, 2) = <<"nice", "to">>
          /\ line_lower[3] \in {"have", "have:"}

\* re.match(r"^(?:responsibilities|about|benefits)")
IsOtherHeader(line_lower) ==
    /\ line_lower # <<>>
    /\ line_lower[1] \in {"responsibilities", "responsibilities:", "about",
                          "about:", "benefits", "benefits:"}

\* re.match(r"^[bullet, -, *, digit, +, .]\s*(.+)"): the item after the bullet
BulletMarks == {"-", "*"}
IsBullet(line) == Len(line) >= 2 /\ line[1] \in BulletMarks
BulletItem(line) == Tail(line)

\* the loop over the lines: state is <<required, nice_to_have, section>>
RECURSIVE CategorizeLines(_, _, _, _)
CategorizeLines(lines, required, nice_to_have, section) ==
    IF lines = <<>> THEN [required |-> required, nice_to_have |-> nice_to_have]
    ELSE LET line == Head(lines)
             line_lower == [n \in DOMAIN line |-> LowerReq(line[n])]
             rest == Tail(lines)
         IN IF IsRequiredHeader(line_lower)
            THEN CategorizeLines(rest, required, nice_to_have, "required")
            ELSE IF IsNiceHeader(line_lower)
            THEN CategorizeLines(rest, required, nice_to_have, "nice_to_have")
            ELSE IF IsOtherHeader(line_lower)
            THEN CategorizeLines(rest, required, nice_to_have, "none")
            ELSE IF IsBullet(line) /\ ItemLen(BulletItem(line)) > 5
            THEN IF section = "required"
                 THEN CategorizeLines(rest, Append(required, BulletItem(line)),
                                      nice_to_have, section)
                 ELSE IF section = "nice_to_have"
                 THEN CategorizeLines(rest, required,
                                      Append(nice_to_have, BulletItem(line)), section)
                 ELSE CategorizeLines(rest, required, nice_to_have, section)
            ELSE CategorizeLines(rest, required, nice_to_have, section)

\* A heuristic pattern is a phrase of lower-case words followed by
\* [^\n.,]+ ; the words are separated by \s+, which also matches line
\* breaks, and the last word is followed by \s+ or, when colon is TRUE, by
\* [:\s]+ .
ReqPattern(phrase, colon) == [phrase |-> phrase, colon |-> colon]

\* the patterns for "N years of experience with" and "strong knowledge of"
\* come first in required_patterns; no line of ReqLines matches them
required_patterns ==
    << ReqPattern(<<"must", "have">>, FALSE),
       ReqPattern(<<"required">>, TRUE) >>

nice_patterns ==
    << ReqPattern(<<"nice", "to", "have">>, TRUE),
       ReqPattern(<<"preferred">>, TRUE),
       ReqPattern(<<"bonus">>, TRUE),
       ReqPattern(<<"familiarity", "with">>, FALSE) >>

\* the index after the line breaks at k
RECURSIVE SkipBreaks(_, _)
SkipBreaks(ws, k) ==
    IF k <= Len(ws) /\ ws[k] = "\n" THEN SkipBreaks(ws, k + 1) ELSE k

\* the index of the last word of the line that holds ws[k]
RECURSIVE LineEnd(_, _)
LineEnd(ws, k) ==
    IF k < Len(ws) /\ ws[k + 1] # "\n" THEN LineEnd(ws, k + 1) ELSE k

\* the index after the phrase when it matches at k, 0 when it does not
RECURSIVE PhraseEnd(_, _, _, _)
PhraseEnd(ws, k, phrase, colon) ==
    IF k > Len(ws) THEN 0
    ELSE IF Len(phrase) = 1
         THEN IF LowerReq(ws[k]) = phrase[1]
                 \/ (colon /\ <<phrase[1], LowerReq(ws[k])>> \in
                                  { <<"have", "have:">>, <<"preferred", "preferred:">>,
                                    <<"bonus", "bonus:">>, <<"required", "required:">> })
              THEN k + 1 ELSE 0
    ELSE IF LowerReq(ws[k]) = phrase[1]
         THEN PhraseEnd(ws, SkipBreaks(ws, k + 1), Tail(phrase), colon)
         ELSE 0

\* re.findall(pattern, text, re.IGNORECASE) from word k on: the matches,
\* leftmost first and not overlapping
RECURSIVE FindAll(_, _, _)
FindAll(ws, k, pattern) ==
    IF k > Len(ws) THEN <<>>
    ELSE LET after == PhraseEnd(ws, k, pattern.phrase, pattern.colon)
             start == SkipBreaks(ws, after)
         IN IF after # 0 /\ start <= Len(ws)
            THEN <<SubSeq(ws, k, LineEnd(ws, start))>>
                 \o FindAll(ws, LineEnd(ws, start) + 1, pattern)
            ELSE FindAll(ws, k + 1, pattern)

RECURSIVE FindAllOf(_, _)
FindAllOf(ws, patterns) ==
    IF patterns = <<>> THEN <<>>
    ELSE FindAll(ws, 1, Head(patterns)) \o FindAllOf(ws, Tail(patterns))

\* if not required and not nice_to_have: use heuristics
Heuristics(text, lists) ==
    IF lists.required = <<>> /\ lists.nice_to_have = <<>>
    THEN [required |-> FindAllOf(Words(text), required_patterns),
          nice_to_have |-> FindAllOf(Words(text), nice_patterns)]
    ELSE lists

categorize_requirements(text) ==
    IF text = <<>> THEN [required |-> <<>>, nice_to_have |-> <<>>]
    ELSE Heuristics(text, CategorizeLines(text, <<>>, <<>>, "none"))

\* categorize_requirements(text) is called
RequirementsInit ==
    /\ call_fn = "categorize_requirements"
    /\ call_args \in TextsOver(ReqLines, MaxReqLines)
    /\ call_pc = "called"
    /\ call_result = <<>>
    /\ PdfIdle
    /\ OptIdle
    /\ ClientConstructed
    /\ NoDatabase
    /\ AtsIdle

categorize_requirements_returns ==
    /\ call_fn = "categorize_requirements"
    /\ call_pc = "called"
    /\ call_result' = categorize_requirements(call_args)
    /\ call_pc' = "returned"
    /\ UNCHANGED <<call_fn, call_args>>
    /\ UNCHANGED <<opt_vars, db_vars, ats_vars, pdf_vars>>

SpecRequirements == RequirementsInit /\ [][categorize_requirements_returns]_vars

(* C21: when a job description has section headers, every bullet item
   longer than 5 characters is in 'required' if the most recent header
   before it is a required-type header, in 'nice_to_have' if it is a
   nice-to-have-type header, and in neither list if it is a
   responsibilities/about/benefits header or no header precedes it; the
   bullet items of each list are in input order. *)
C21_BulletsFollowTheirHeader ==
    call_pc = "returned" =>
        LET text == call_args
            LowerLine(n) == [w \in DOMAIN text[n] |-> LowerReq(text[n][w])]
            HeaderType(n) ==
                IF IsRequiredHeader(LowerLine(n)) THEN "required"
                ELSE IF IsNiceHeader(LowerLine(n)) THEN "nice_to_have"
                ELSE IF IsOtherHeader(LowerLine(n)) THEN "other"
                ELSE "none"
            Headers == {n \in DOMAIN text : HeaderType(n) # "none"}
            Bullets == {n \in DOMAIN text \ Headers :
                            IsBullet(text[n]) /\ ItemLen(BulletItem(text[n])) > 5}
            Under(n) ==
                LET before == {h \in Headers : h < n}
                IN IF before = {} THEN "none"
                   ELSE HeaderType(CHOOSE h \in before : \A g \in before : g <= h)
            Items(type) ==
                LET lines == SelectSeq([n \in DOMAIN text |-> n],
                                       LAMBDA n : n \in Bullets /\ Under(n) = type)
                IN [k \in DOMAIN lines |-> BulletItem(text[lines[k]])]
            IsBulletItem(item) == \E n \in Bullets : BulletItem(text[n]) = item
        IN Headers # {} =>
             /\ SelectSeq(call_result.required, IsBulletItem) = Items("required")
             /\ SelectSeq(call_result.nice_to_have, IsBulletItem)
                    = Items("nice_to_have")

---------------------------------------------------------------------------
(* resume_optimizer: select_diverse_anecdotes *)

MaxAnecdotes == 3
MaxTopN == 2

\* the anecdote dictionaries: 'skills' and 'content' may be missing
Anecdotes ==
    { [id |-> 1, skills |-> <<"Python">>, content |-> <<>>],
      [id |-> 2, skills |-> <<"python", "Docker">>, content |-> <<>>],
      [id |-> 3, content |-> <<"docker">>],
      [id |-> 4, skills |-> <<"AWS">>, content |-> <<>>],
      [id |-> 5, skills |-> <<"Docker">>, content |-> <<"security">>] }

\* jd_keywords, the importances in tenths
AnecdoteKeywords ==
    { <<>>,
      << <<"python", 3>>, <<"docker", 7>> >>,
      << <<"Python", 7>>, <<"docker", 3>> >> }

\* set(skill.lower() for skill in anecdote.get("skills", []))
SkillsOf(anecdote) ==
    LET skills == Get(anecdote, "skills", <<>>)
    IN {Lower(skills[n]) : n \in DOMAIN skills}

RECURSIVE AnecdoteScore(_, _)
AnecdoteScore(anecdote, d) ==
    IF d = <<>> THEN 0
    ELSE (IF Lower(d[1][1]) \in SkillsOf(anecdote)
             \/ InText(d[1][1], Get(anecdote, "content", <<>>))
          THEN d[1][2] ELSE 0)
         + AnecdoteScore(anecdote, Tail(d))

score_anecdote_relevance(anecdote, jd_keywords) ==
    IF DOMAIN anecdote = {} \/ jd_keywords = <<>> THEN Rat(0, 1)
    ELSE LET max_possible_score == SumValues(jd_keywords)
         IN IF max_possible_score > 0
            THEN RatMin(Rat(AnecdoteScore(anecdote, jd_keywords), max_possible_score),
                        Rat(1, 1))
            ELSE Rat(0, 1)

\* sort(key=score, reverse=True) on <<score, anecdote>> pairs: stable
RECURSIVE InsertByScore(_, _)
InsertByScore(sorted, item) ==
    IF sorted = <<>> THEN <<item>>
    ELSE IF RatGE(Head(sorted)[1], item[1])
         THEN <<Head(sorted)>> \o InsertByScore(Tail(sorted), item)
         ELSE <<item>> \o sorted

RECURSIVE SortedByScore(_)
SortedByScore(scored) ==
    IF scored = <<>> THEN <<>>
    ELSE InsertByScore(SortedByScore(SubSeq(scored, 1, Len(scored) - 1)),
                       scored[Len(scored)])

\* only anecdotes that bring a new skill are taken
Selects_UniqueOnly(score, unique_skills) == unique_skills > 0

\* if score > 0.3 or unique_skills > 0
Selects(score, unique_skills) == RatLT(Rat(3, 10), score) \/ unique_skills > 0

\* the selection loop over the sorted pairs
RECURSIVE SelectLoop(_, _, _, _)
SelectLoop(scored, selected, covered_skills, top_n) ==
    IF scored = <<>> \/ Len(selected) >= top_n THEN selected
    ELSE LET score == Head(scored)[1]
             anecdote == Head(scored)[2]
             anecdote_skills == SkillsOf(anecdote)
             unique_skills == Cardinality(anecdote_skills \ covered_skills)
         IN IF Selects(score, unique_skills)
            THEN SelectLoop(Tail(scored), Append(selected, anecdote),
                            covered_skills \cup anecdote_skills, top_n)
            ELSE SelectLoop(Tail(scored), selected, covered_skills, top_n)

ScoredAnecdotes(anecdotes, jd_keywords) ==
    SortedByScore([n \in DOMAIN anecdotes |->
                      <<score_anecdote_relevance(anecdotes[n], jd_keywords),
                        anecdotes[n]>>])

select_diverse_anecdotes(anecdotes, jd_keywords, top_n) ==
    IF anecdotes = <<>> THEN <<>>
    ELSE Take(SelectLoop(ScoredAnecdotes(anecdotes, jd_keywords), <<>>, {}, top_n),
              top_n)

\* select_diverse_anecdotes(anecdotes, jd_keywords, top_n) is called
AnecdotesInit ==
    /\ call_fn = "select_diverse_anecdotes"
    /\ call_args \in TextsOver(Anecdotes, MaxAnecdotes) \X AnecdoteKeywords
                     \X (0..MaxTopN)
    /\ call_pc = "called"
    /\ call_result = <<>>
    /\ PdfIdle
    /\ OptIdle
    /\ ClientConstructed
    /\ NoDatabase
    /\ AtsIdle

select_diverse_anecdotes_returns ==
    /\ call_fn = "select_diverse_anecdotes"
    /\ call_pc = "called"
    /\ call_result' = select_diverse_anecdotes(call_args[1], call_args[2],
                                               call_args[3])
    /\ call_pc' = "returned"
    /\ UNCHANGED <<call_fn, call_args>>
    /\ UNCHANGED <<opt_vars, db_vars, ats_vars, pdf_vars>>

SpecAnecdotes == AnecdotesInit /\ [][select_diverse_anecdotes_returns]_vars

(* C22: select_diverse_anecdotes goes through the anecdotes in descending
   order of relevance score and returns at most top_n of them: an anecdote
   is selected exactly when fewer than top_n were selected before it and
   its score is above 0.3 or it has a skill that no anecdote selected
   before it has. *)
C22_GreedyDiverseSelection ==
    call_pc = "returned" =>
        LET anecdotes == call_args[1]
            jd_keywords == call_args[2]
            top_n == call_args[3]
            Score(a) == score_anecdote_relevance(a, jd_keywords)
            IsOrder(p) ==
                /\ \A a, b \in DOMAIN anecdotes : a # b => p[a] # p[b]
                /\ \A a, b \in DOMAIN anecdotes :
                     a < b => RatGE(Score(anecdotes[p[a]]), Score(anecdotes[p[b]]))
            Before(S, k) == {j \in DOMAIN anecdotes : j < k /\ S[j]}
            Rule(p, S) ==
                \A k \in DOMAIN anecdotes :
                    S[k] <=>
                        /\ Cardinality(Before(S, k)) < top_n
                        /\ \/ RatLT(Rat(3, 10), Score(anecdotes[p[k]]))
                           \/ SkillsOf(anecdotes[p[k]])
                                  \ UNION {SkillsOf(anecdotes[p[j]]) : j \in Before(S, k)}
                              # {}
        IN /\ Len(call_result) <= top_n
           /\ \E p \in [DOMAIN anecdotes -> DOMAIN anecdotes] :
                /\ IsOrder(p)
                /\ \E S \in [DOMAIN anecdotes -> BOOLEAN] :
                     /\ Rule(p, S)
                     /\ call_result =
                            LET picks == SelectSeq([k \in DOMAIN anecdotes |-> k],
                                                   LAMBDA k : S[k])
                            IN [k \in DOMAIN picks |-> anecdotes[p[picks[k]]]]

\* three anecdotes, top_n = 2: the first has the highest score, the second
\* is passed over (score 0.3, no new skill), the third brings a new skill
C22_Witness ==
    /\ call_pc = "returned"
    /\ call_fn = "select_diverse_anecdotes"
    /\ call_args[3] = 2
    /\ Len(call_args[1]) = 3
    /\ Len(call_result) = 2
    /\ call_result[2] = [id |-> 4, skills |-> <<"AWS">>, content |-> <<>>]
    /\ \E n \in DOMAIN call_args[1] :
         /\ call_args[1][n] \notin {call_result[1], call_result[2]}
         /\ RatGE(score_anecdote_relevance(call_args[1][n], call_args[2]),
                  Rat(3, 10))

---------------------------------------------------------------------------
(* pdf_parser: parse_experience_section *)

MaxExpLines == 3

ExpTitles == { <<"Engineer">>, <<"Senior", "Engineer">> }
ExpCompanies == { <<"Acme", "Inc">> }
StartDates == { <<"Jan", "2020">>, <<"2019">>, <<"2020-01">> }
EndDates == { <<"Present">>, <<"2021-06">> }

\* the line "Title | Company | Start - End"
ExperienceHeader(title, company, start, end) ==
    title \o <<"|">> \o company \o <<"|">> \o start \o <<"-">> \o end

ExpHeaders ==
    { ExperienceHeader(title, company, start, end) :
        title \in ExpTitles, company \in ExpCompanies,
        start \in StartDates, end \in EndDates }

ExpBullets == { <<"-", "Built", "APIs">>, <<"*", "Led", "team">> }

\* the lines of an experience section, none of them blank
ExpLines == ExpHeaders \cup ExpBullets \cup { <<"Remote">> }

\* the positions of "|" in the line
Bars(line) == {n \in DOMAIN line : line[n] = "|"}

\* the second smallest position
SecondBar(line) ==
    LET first == CHOOSE a \in Bars(line) : \A b \in Bars(line) : a <= b
        others == Bars(line) \ {first}
    IN CHOOSE a \in others : \A b \in others : a <= b

FirstBar(line) == CHOOSE a \in Bars(line) : \A b \in Bars(line) : a <= b

\* re.match(entry_pattern, line) for a line whose fields are not empty:
\* three groups separated by the first two "|"
IsEntry(line) ==
    /\ Cardinality(Bars(line)) >= 2
    /\ FirstBar(line) > 1
    /\ SecondBar(line) > FirstBar(line) + 1
    /\ SecondBar(line) < Len(line)

EntryGroups(line) ==
    << SubSeq(line, 1, FirstBar(line) - 1),
       SubSeq(line, FirstBar(line) + 1, SecondBar(line) - 1),
       SubSeq(line, SecondBar(line) + 1, Len(line)) >>

\* a word as the pieces str.split("-") cuts it into, "-" between them
HyphenPieces(word) ==
    CASE word = "2020-01" -> <<"2020", "-", "01">>
      [] word = "2021-06" -> <<"2021", "-", "06">>
      [] OTHER            -> <<word>>

RECURSIVE Pieces(_)
Pieces(ws) == IF ws = <<>> THEN <<>> ELSE HyphenPieces(Head(ws)) \o Pieces(Tail(ws))

\* dates.split("-"), each part stripped
RECURSIVE SplitPieces(_, _)
SplitPieces(ps, part) ==
    IF ps = <<>> THEN <<part>>
    ELSE IF Head(ps) = "-" THEN <<part>> \o SplitPieces(Tail(ps), <<>>)
    ELSE SplitPieces(Tail(ps), Append(part, Head(ps)))

SplitDates(dates) == SplitPieces(Pieces(dates), <<>>)

NewEntry(line) ==
    LET groups == EntryGroups(line)
        date_parts == SplitDates(groups[3])
    IN [title |-> groups[1],
        company |-> groups[2],
        start_date |-> date_parts[1],
        end_date |-> IF Len(date_parts) > 1 THEN date_parts[2] ELSE <<>>,
        responsibilities |-> <<>>]

IsBulletLine(line) == line # <<>> /\ line[1] \in {"-", "*"}

\* the list a new entry starts with: the loop resets it only when an entry
\* is saved
Carried(current_entry, responsibilities) ==
    IF current_entry # <<>> THEN <<>> ELSE responsibilities

\* the loop over the lines; current_entry is <<>> for None and <<entry>>
\* otherwise
RECURSIVE ExperienceLoop(_, _, _, _)
ExperienceLoop(lines, experiences, current_entry, responsibilities) ==
    LET Saved == IF current_entry # <<>>
                 THEN Append(experiences,
                             [current_entry[1] EXCEPT
                                  !.responsibilities = responsibilities])
                 ELSE experiences
    IN IF lines = <<>> THEN Saved
       ELSE LET line == Head(lines)
            IN IF line = <<>>
               THEN ExperienceLoop(Tail(lines), experiences, current_entry,
                                   responsibilities)
               ELSE IF IsEntry(line)
               THEN ExperienceLoop(Tail(lines), Saved, <<NewEntry(line)>>,
                                   Carried(current_entry, responsibilities))
               ELSE IF IsBulletLine(line)
               THEN ExperienceLoop(Tail(lines), experiences, current_entry,
                                   Append(responsibilities, Tail(line)))
               ELSE ExperienceLoop(Tail(lines), experiences, current_entry,
                                   responsibilities)

parse_experience_section(text) == ExperienceLoop(text, <<>>, <<>>, <<>>)

\* parse_experience_section(text) is called
ExperienceInit ==
    /\ call_fn = "parse_experience_section"
    /\ call_args \in TextsOver(ExpLines, MaxExpLines)
    /\ call_pc = "called"
    /\ call_result = <<>>
    /\ PdfIdle
    /\ OptIdle
    /\ ClientConstructed
    /\ NoDatabase
    /\ AtsIdle

parse_experience_returns ==
    /\ call_fn = "parse_experience_section"
    /\ call_pc = "called"
    /\ call_result' = parse_experience_section(call_args)
    /\ call_pc' = "returned"
    /\ UNCHANGED <<call_fn, call_args>>
    /\ UNCHANGED <<opt_vars, db_vars, ats_vars, pdf_vars>>

SpecExperience == ExperienceInit /\ [][parse_experience_returns]_vars

(* C23: for an experience line 'Title | Company | Start - End' the entry
   parse_experience_section makes for it has the title and the company of
   the line, start_date = Start and end_date = End, whatever the date
   strings Start and End are. *)
C23_HeaderFieldsAndDates ==
    call_pc = "returned" =>
        LET text == call_args
            Headers == {n \in DOMAIN text : text[n] \in ExpHeaders}
            EntryOf(n) == Cardinality({h \in Headers : h <= n})
        IN \A n \in Headers :
             \A title \in ExpTitles, company \in ExpCompanies,
                start \in StartDates, end \in EndDates :
                 text[n] = ExperienceHeader(title, company, start, end) =>
                     /\ EntryOf(n) \in DOMAIN call_result
                     /\ call_result[EntryOf(n)].title = title
                     /\ call_result[EntryOf(n)].company = company
                     /\ call_result[EntryOf(n)].start_date = start
                     /\ call_result[EntryOf(n)].end_date = end

(* C30: parse_experience_section returns one entry per entry header line,
   in input order, and the responsibilities of an entry are the bullet
   lines between its header and the next header, in input order; bullets
   before the first header belong to no entry. *)
C30_BulletsBelongToPrecedingHeader ==
    call_pc = "returned" =>
        LET text == call_args
            headers == SelectSeq([n \in DOMAIN text |-> n],
                                 LAMBDA n : IsEntry(text[n]))
            NextHeader(k) == IF k < Len(headers) THEN headers[k + 1]
                             ELSE Len(text) + 1
            BulletsOf(k) ==
                LET lines == SelectSeq([n \in DOMAIN text |-> n],
                                       LAMBDA n : /\ n > headers[k]
                                                  /\ n < NextHeader(k)
                                                  /\ IsBulletLine(text[n]))
                IN [b \in DOMAIN lines |-> Tail(text[lines[b]])]
        IN /\ Len(call_result) = Len(headers)
           /\ \A k \in DOMAIN headers :
                /\ call_result[k].title = EntryGroups(text[headers[k]])[1]
                /\ call_result[k].company = EntryGroups(text[headers[k]])[2]
                /\ call_result[k].responsibilities = BulletsOf(k)

=============================================================================
